---- MODULE Spec2Model ----
(***************************************************************************)
(* The in-process cache of pgweb (package cache): a TTL-, item-count- and  *)
(* memory-bounded key-value store guarded by one RWMutex, its periodic     *)
(* cleanup pass, its size estimator and the cache-key builder.             *)
(*                                                                         *)
(* Every exported method of Cache takes c.mu for its whole body, so one    *)
(* method call is one atomic action.  The wall clock is the variable now;  *)
(* the time.Now() readings of one call are taken at the same instant.      *)
(* Strings that the code inspects byte by byte (the key components) are    *)
(* sequences of byte codes; cached values are described by their reflect   *)
(* kind and the lengths estimateSize reads.                                *)
(***************************************************************************)
EXTENDS Integers, Sequences, FiniteSets, TLC

VARIABLES
    \* The fields of one Cache, and the wall clock.
    items, currentSize, defaultTTL, maxItems, maxMemory, cleanupStarted, now,
    \* History: per key the value and expiration of the last Set not undone by a
    \* Delete, a Clear or an eviction; and the call that ended last.
    written, last,
    \* A caller of GenerateKey: two component lists, their keys, and what was read.
    kA, kB, keyA, keyB, kphase, got,
    \* Goroutines calling into caches: per cache its items and currentSize and the
    \* holders of its RWMutex, per goroutine the call it is in.
    caches, mu, gor,
    \* A Set call followed through estimateSize; a query on its way through the
    \* query cache; the argument and the result of a call of a pure function.
    est, flow, arg, ret,
    \* A database client shared by the requests of a session: its defaultRole and
    \* the role of the last SET ROLE it executed; and the requests being served.
    client, reqs

storeVars == <<items, currentSize, defaultTTL, maxItems, maxMemory, cleanupStarted, now,
               written, last>>
keyVars == <<kA, kB, keyA, keyB, kphase, got>>
lockVars == <<caches, mu, gor>>
roleVars == <<client, reqs>>
sideVars == <<est, flow, arg, ret, client, reqs>>
vars == <<items, currentSize, defaultTTL, maxItems, maxMemory, cleanupStarted, now,
          written, last, kA, kB, keyA, keyB, kphase, got, caches, mu, gor,
          est, flow, arg, ret, client, reqs>>

(***************************************************************************)
(* Bounds of the model.                                                    *)
(***************************************************************************)
\* The clock runs from 0 to MaxTime.
MaxTime == 2
\* The role component of a cache key has at most MaxRoleLen bytes.
MaxRoleLen == 1

\* The ttl arguments of Set (0 stands for the default), the default TTL of the
\* constructors, and the limits given to NewWithMaxItems and NewWithMemoryLimit.
TTLs == {0, 1, 2}
DefaultTTLs == {1}
ItemLimits == {1, 2}
MemoryLimitsMB == {1}

(***************************************************************************)
(* Program constants.                                                      *)
(***************************************************************************)
DefaultMaxItems == 500
MemoryLimitMaxItems == 10000
DefaultMaxMemory == 100 * 1024 * 1024
MB == 1024 * 1024

Keys == {"a", "b", "c"}

\* The nil interface value.
NilVal == [kind |-> "nil"]

\* Key components are strings, a string is the sequence of its bytes:
\* 97 "a", 98 "b", 99 "c", 124 "|", 114 "r", 119 "w".
RoleBytes == {114, 119}
RECURSIVE StringsUpTo(_, _)
StringsUpTo(alphabet, n) ==
    IF n = 0 THEN {<<>>}
    ELSE LET shorter == StringsUpTo(alphabet, n - 1) IN
         shorter \cup {Append(s, b) : s \in shorter, b \in alphabet}
Queries == {<<97>>, <<97, 124, 98>>}
ConnectionStrings == {<<99>>, <<98, 124, 99>>}
Roles == StringsUpTo(RoleBytes, MaxRoleLen)
\* The (query, connection string, role) lists handed to GenerateKey.
KeyLists == {<<q, c, r>> : q \in Queries, c \in ConnectionStrings, r \in Roles}

(***************************************************************************)
(* Cached values, as estimateSize sees them.                               *)
(***************************************************************************)
StringVal(n) == [kind |-> "string", len |-> n]
\* Against a limit of 1 MB: two small values fit, a small and a large one do not.
SmallVal == StringVal(400000)
LargeVal == StringVal(700000)
Values == {SmallVal, LargeVal}

\* unsafe.Sizeof of an interface value on a 64-bit build.
InterfaceSize == 16

RECURSIVE estimateSize(_)
estimateSize(value) ==
    CASE value.kind = "nil" -> 8
      [] value.kind = "string" -> value.len + 16
      [] value.kind \in {"slice", "array"} ->
            (IF value.len > 0 /\ value.boxed THEN value.len * 8 * 4 ELSE value.len * 8) + 24
      [] value.kind = "map" -> value.len * 32
      [] value.kind = "ptr" -> IF value.isNil THEN 8 ELSE 8 + estimateSize(value.elem)
      [] value.kind = "struct" -> value.numField * 16
      [] OTHER -> InterfaceSize

(***************************************************************************)
(* Helpers over the items map.                                             *)
(***************************************************************************)
\* time.Time.After
After(t, u) == t > u

Restrict(f, S) == [x \in S |-> f[x]]

RECURSIVE SumSizes(_, _)
SumSizes(m, S) ==
    IF S = {} THEN 0
    ELSE LET x == CHOOSE y \in S : TRUE IN m[x].size + SumSizes(m, S \ {x})

\* The sum of the recorded sizes of the entries of a map.
TotalSize(m) == SumSizes(m, DOMAIN m)

ExpiredKeys(m, t) == {k \in DOMAIN m : After(t, m[k].expiresAt)}

\* The orders in which a range over a map of these keys may visit them.
Orders(S) == {o \in [1..Cardinality(S) -> S] : \A i, j \in 1..Cardinality(S) : o[i] = o[j] => i = j}

(***************************************************************************)
(* The unexported eviction methods; c is [items, currentSize].             *)
(***************************************************************************)
evictExpired(c, t) ==
    LET gone == ExpiredKeys(c.items, t) IN
    [items |-> Restrict(c.items, DOMAIN c.items \ gone),
     currentSize |-> c.currentSize - SumSizes(c.items, gone)]

Swap(s, i, j) == [s EXCEPT ![i] = s[j], ![j] = s[i]]

RECURSIVE SortInner(_, _, _, _)
SortInner(m, s, i, j) ==
    IF j > Len(s) THEN s
    ELSE SortInner(m, IF After(m[s[i]].expiresAt, m[s[j]].expiresAt) THEN Swap(s, i, j) ELSE s, i, j + 1)

RECURSIVE SortOuter(_, _, _)
SortOuter(m, s, i) ==
    IF i > Len(s) THEN s ELSE SortOuter(m, SortInner(m, s, i, i + 1), i + 1)

\* Variant: the keys stay in range order, the sort is left out.
RangeOrder(m, o) == o

\* The keys of m, collected in range order o and exchange-sorted by expiresAt.
SortByExpiry(m, o) == SortOuter(m, o, 1)

RECURSIVE RemoveCount(_, _, _, _)
RemoveCount(c, s, i, count) ==
    IF ~(i - 1 < count /\ i - 1 < Len(s)) THEN c
    ELSE RemoveCount([items |-> Restrict(c.items, DOMAIN c.items \ {s[i]}),
                      currentSize |-> c.currentSize - c.items[s[i]].size],
                     s, i + 1, count)

evictOldest(c, count, o) ==
    IF count <= 0 THEN c
    ELSE RemoveCount(c, SortByExpiry(c.items, o), 1, count)

RECURSIVE RemoveBySize(_, _, _, _, _)
RemoveBySize(c, s, i, freedBytes, targetBytesToFree) ==
    IF ~(i - 1 < Len(s) /\ freedBytes < targetBytesToFree) THEN c
    ELSE RemoveBySize([items |-> Restrict(c.items, DOMAIN c.items \ {s[i]}),
                       currentSize |-> c.currentSize - c.items[s[i]].size],
                      s, i + 1, freedBytes + c.items[s[i]].size, targetBytesToFree)

evictOldestBySize(c, targetBytesToFree, o) ==
    IF targetBytesToFree <= 0 THEN c
    ELSE RemoveBySize(c, SortByExpiry(c.items, o), 1, 0, targetBytesToFree)

\* A cache after an eviction pass, with the keys the pass purged as expired and
\* the keys it evicted by age.
Pass(before, afterPurge, afterEvict) ==
    [c |-> afterEvict,
     purged |-> DOMAIN before.items \ DOMAIN afterPurge.items,
     evicted |-> DOMAIN afterPurge.items \ DOMAIN afterEvict.items]

evictToFitMemory(c, newItemSize, t, o) ==
    LET targetSize == maxMemory - newItemSize
        p == evictExpired(c, t)
    IN IF p.currentSize > targetSize
       THEN Pass(c, p, evictOldestBySize(p, p.currentSize - targetSize, o))
       ELSE Pass(c, p, p)

(***************************************************************************)
(* GenerateKey.  A string is the sequence of its bytes; 124 is "|".        *)
(***************************************************************************)
\* crypto/md5 (RFC 1321).  A 32-bit word is <<hi, lo>>, two 16-bit halves.
RECURSIVE And16(_, _, _)
And16(x, y, n) ==
    IF n = 0 THEN 0
    ELSE ((x % 2) * (y % 2)) + (2 * And16(x \div 2, y \div 2, n - 1))

WAnd(a, b) == <<And16(a[1], b[1], 16), And16(a[2], b[2], 16)>>
WNot(a) == <<65535 - a[1], 65535 - a[2]>>
WOr(a, b) == <<(a[1] + b[1]) - And16(a[1], b[1], 16), (a[2] + b[2]) - And16(a[2], b[2], 16)>>
WXor(a, b) == <<(a[1] + b[1]) - (2 * And16(a[1], b[1], 16)), (a[2] + b[2]) - (2 * And16(a[2], b[2], 16))>>
WAdd(a, b) ==
    LET lo == a[2] + b[2] IN
    <<(a[1] + b[1] + (lo \div 65536)) % 65536, lo % 65536>>

RECURSIVE Pow2(_)
Pow2(n) == IF n = 0 THEN 1 ELSE 2 * Pow2(n - 1)

\* bits.RotateLeft32
WRotl(a, s) ==
    LET b == IF s >= 16 THEN <<a[2], a[1]>> ELSE a
        r == s % 16
    IN <<((b[1] * Pow2(r)) % 65536) + (b[2] \div Pow2(16 - r)),
         ((b[2] * Pow2(r)) % 65536) + (b[1] \div Pow2(16 - r))>>

Md5K ==
    <<<<55146, 42104>>, <<59591, 46934>>, <<9248, 28891>>, <<49597, 52974>>,
      <<62844, 4015>>, <<18311, 50730>>, <<43056, 17939>>, <<64838, 38145>>,
      <<27008, 39128>>, <<35652, 63407>>, <<65535, 23473>>, <<35164, 55230>>,
      <<27536, 4386>>, <<64920, 29075>>, <<42617, 17294>>, <<18868, 2081>>,
      <<63006, 9570>>, <<49216, 45888>>, <<9822, 23121>>, <<59830, 51114>>,
      <<54831, 4189>>, <<580, 5203>>, <<55457, 59009>>, <<59347, 64456>>,
      <<8673, 52710>>, <<49975, 2006>>, <<62677, 3463>>, <<17754, 5357>>,
      <<43491, 59653>>, <<64751, 41976>>, <<26479, 729>>, <<36138, 19594>>,
      <<65530, 14658>>, <<34673, 63105>>, <<28061, 24866>>, <<64997, 14348>>,
      <<42174, 59972>>, <<19422, 53161>>, <<63163, 19296>>, <<48831, 48240>>,
      <<10395, 32454>>, <<60065, 10234>>, <<54511, 12421>>, <<1160, 7429>>,
      <<55764, 53305>>, <<59099, 39397>>, <<8098, 31992>>, <<50348, 22117>>,
      <<62505, 8772>>, <<17194, 65431>>, <<43924, 9127>>, <<64659, 41017>>,
      <<25947, 22979>>, <<36620, 52370>>, <<65519, 62589>>, <<34180, 24017>>,
      <<28584, 32335>>, <<65068, 59104>>, <<41729, 17172>>, <<19976, 4513>>,
      <<63315, 32386>>, <<48442, 62005>>, <<10967, 53947>>, <<60294, 54161>>>>

Md5S ==
    <<7, 12, 17, 22, 7, 12, 17, 22, 7, 12, 17, 22, 7, 12, 17, 22,
      5, 9, 14, 20, 5, 9, 14, 20, 5, 9, 14, 20, 5, 9, 14, 20,
      4, 11, 16, 23, 4, 11, 16, 23, 4, 11, 16, 23, 4, 11, 16, 23,
      6, 10, 15, 21, 6, 10, 15, 21, 6, 10, 15, 21, 6, 10, 15, 21>>

Md5Init == <<<<26437, 8961>>, <<61389, 43913>>, <<39098, 56574>>, <<4146, 21622>>>>

Zeros(n) == [i \in 1..n |-> 0]

\* The message, the 0x80 byte, zeros up to 56 mod 64, the bit length in 8 bytes
\* (little-endian; the messages of the model are shorter than 8192 bytes).
Md5Pad(msg) ==
    LET n == Len(msg)
        z == (55 - n) % 64
        bits == n * 8
    IN msg \o <<128>> \o Zeros(z) \o <<bits % 256, bits \div 256>> \o Zeros(6)

\* Word i (0..15) of the block that starts after byte off.
Md5Word(p, off, i) ==
    <<p[off + (4 * i) + 3] + (256 * p[off + (4 * i) + 4]), p[off + (4 * i) + 1] + (256 * p[off + (4 * i) + 2])>>

Md5F(i, b, c, d) ==
    CASE i < 16 -> WOr(WAnd(b, c), WAnd(WNot(b), d))
      [] i < 32 -> WOr(WAnd(b, d), WAnd(c, WNot(d)))
      [] i < 48 -> WXor(WXor(b, c), d)
      [] OTHER -> WXor(c, WOr(b, WNot(d)))

Md5G(i) ==
    CASE i < 16 -> i
      [] i < 32 -> ((5 * i) + 1) % 16
      [] i < 48 -> ((3 * i) + 5) % 16
      [] OTHER -> (7 * i) % 16

\* One of the 64 steps: the state <<a, b, c, d>> after step i.
Md5Step(st, f, i) == <<st[4], WAdd(st[2], WRotl(f, Md5S[i + 1])), st[2], st[3]>>

Md5StepInput(p, off, i, st) ==
    WAdd(WAdd(WAdd(Md5F(i, st[2], st[3], st[4]), st[1]), Md5K[i + 1]), Md5Word(p, off, Md5G(i)))

\* Steps lo .. hi - 1 applied to the state st, the range split in halves.  No word
\* is negative: the first test only has st evaluated before the steps that use it.
RECURSIVE Md5Rounds(_, _, _, _, _)
Md5Rounds(p, off, lo, hi, st) ==
    IF st[1][1] < 0 THEN st
    ELSE IF hi = lo + 1 THEN Md5Step(st, Md5StepInput(p, off, lo, st), lo)
    ELSE Md5Rounds(p, off, (lo + hi) \div 2, hi, Md5Rounds(p, off, lo, (lo + hi) \div 2, st))

Md5AddState(st, r) == <<WAdd(st[1], r[1]), WAdd(st[2], r[2]), WAdd(st[3], r[3]), WAdd(st[4], r[4])>>

RECURSIVE Md5Blocks(_, _, _)
Md5Blocks(p, off, st) ==
    IF off >= Len(p) THEN st
    ELSE Md5Blocks(p, off + 64, Md5AddState(st, Md5Rounds(p, off, 0, 64, st)))

WBytes(a) == <<a[2] % 256, a[2] \div 256, a[1] % 256, a[1] \div 256>>

Md5Digest(st) == WBytes(st[1]) \o WBytes(st[2]) \o WBytes(st[3]) \o WBytes(st[4])

\* md5.Sum: the 16 bytes of the digest.
Md5Sum(msg) == Md5Digest(Md5Blocks(Md5Pad(msg), 0, Md5Init))

HexDigit(d) == IF d < 10 THEN 48 + d ELSE 87 + d

RECURSIVE HexBytes(_)
HexBytes(bs) ==
    IF bs = <<>> THEN <<>>
    ELSE <<HexDigit(Head(bs) \div 16), HexDigit(Head(bs) % 16)>> \o HexBytes(Tail(bs))

RECURSIVE JoinComponents(_, _)
JoinComponents(components, combined) ==
    IF components = <<>> THEN combined
    ELSE JoinComponents(Tail(components), combined \o Head(components) \o <<124>>)

\* Variant: the role, the third component, is left out of the key.
GenerateKeyWithoutRole(components) ==
    HexBytes(Md5Sum(JoinComponents(SubSeq(components, 1, 2), <<>>)))

GenerateKey(components) == HexBytes(Md5Sum(JoinComponents(components, <<>>)))


(***************************************************************************)
(* Constructors.                                                           *)
(***************************************************************************)
\* last: the call that ended last (op, and the key of a Set, Get or Delete), and
\* for a Set: its ttl argument, whether the key was stored when it began, the keys
\* its evictExpired calls purged, the keys evictOldest evicted and the keys
\* evictOldestBySize evicted.  For a Delete existed says whether the key was stored,
\* for a Clear whether any entry was; for a cleanup pass purged is what it removed.
NoCall == [op |-> "none", key |-> "", ttl |-> 0, existed |-> FALSE, purged |-> {},
           evicted |-> {}, evictedMem |-> {}]

NoRead == [value |-> NilVal, found |-> FALSE]

\* No key has been built yet; phase says how far a caller of GenerateKey has got.
KeyStart(phase) ==
    /\ kA = <<>>
    /\ kB = <<>>
    /\ keyA = <<>>
    /\ keyB = <<>>
    /\ kphase = phase
    /\ got = NoRead

\* No goroutine is modelled.
LockOff ==
    /\ caches = <<>>
    /\ mu = <<>>
    /\ gor = <<>>

\* No call is followed step by step.
EstOff == est = [pc |-> "off"]
FlowOff == flow = [pc |-> "off"]
PureOff == arg = <<>> /\ ret = <<>>
\* No request is served.
RoleOff == client = <<>> /\ reqs = <<>>
SideOff == EstOff /\ FlowOff /\ PureOff /\ RoleOff

Construct(ttl, mi, mm, cleaner) ==
    /\ items = <<>>
    /\ currentSize = 0
    /\ defaultTTL = ttl
    /\ maxItems = mi
    /\ maxMemory = mm
    /\ cleanupStarted = cleaner
    /\ now = 0
    /\ written = <<>>
    /\ last = NoCall

New(ttl) == Construct(ttl, DefaultMaxItems, DefaultMaxMemory, TRUE)

NewWithMaxItems(ttl, mi) == Construct(ttl, mi, DefaultMaxMemory, TRUE)

NewWithMemoryLimit(ttl, maxMemoryMB) == Construct(ttl, MemoryLimitMaxItems, maxMemoryMB * MB, TRUE)

NewWithoutCleanup(ttl) == Construct(ttl, DefaultMaxItems, DefaultMaxMemory, FALSE)

Init ==
    /\ KeyStart("off")
    /\ LockOff
    /\ SideOff
    /\ \E ttl \in DefaultTTLs :
        \/ New(ttl)
        \/ \E mi \in ItemLimits : NewWithMaxItems(ttl, mi)
        \/ \E mb \in MemoryLimitsMB : NewWithMemoryLimit(ttl, mb)
        \/ NewWithoutCleanup(ttl)

(***************************************************************************)
(* The exported methods.                                                   *)
(***************************************************************************)
\* len(c.items)
Count(m) == Cardinality(DOMAIN m)

\* Variant: at capacity the expired entries are purged and nothing else is evicted.
SetItemRoomPurgeOnly(c, t) ==
    IF maxItems > 0 /\ Count(c.items) >= maxItems
    THEN {Pass(c, evictExpired(c, t), evictExpired(c, t))}
    ELSE {Pass(c, c, c)}

\* Variant: at capacity the oldest entry is evicted without purging expired ones first.
SetItemRoomWithoutPurge(c, t) ==
    IF maxItems > 0 /\ Count(c.items) >= maxItems
    THEN {Pass(c, c, evictOldest(c, Count(c.items) - maxItems + 1, o)) : o \in Orders(DOMAIN c.items)}
    ELSE {Pass(c, c, c)}

\* Lines 90-98 of Set: the outcomes of making room for one more item.
SetItemRoom(c, t) ==
    IF maxItems > 0 /\ Count(c.items) >= maxItems
    THEN LET p == evictExpired(c, t) IN
         IF Count(p.items) >= maxItems
         THEN {Pass(c, p, evictOldest(p, Count(p.items) - maxItems + 1, o)) : o \in Orders(DOMAIN p.items)}
         ELSE {Pass(c, p, p)}
    ELSE {Pass(c, c, c)}

\* Lines 103-106 of Set: the size of the item being replaced is subtracted.
SetSubtractExisting(c, key) ==
    IF key \in DOMAIN c.items
    THEN [c EXCEPT !.currentSize = @ - c.items[key].size]
    ELSE c

\* Lines 108-111 of Set: the outcomes of making room for itemSize bytes.
SetMemoryRoom(c, itemSize, t) ==
    IF maxMemory > 0 /\ c.currentSize + itemSize > maxMemory
    THEN {evictToFitMemory(c, itemSize, t, o) : o \in Orders(DOMAIN evictExpired(c, t).items)}
    ELSE {Pass(c, c, c)}

\* Lines 113-120 of Set.
SetInsert(c, key, value, itemSize, ttl, t) ==
    LET newItem == [value |-> value, expiresAt |-> t + ttl, size |-> itemSize] IN
    [items |-> [k \in DOMAIN c.items \cup {key} |-> IF k = key THEN newItem ELSE c.items[k]],
     currentSize |-> c.currentSize + itemSize]

\* Variant: the ttl is taken as given, 0 included.
GivenTTL(ttl) == ttl

\* Lines 83-85 of Set: a ttl of 0 stands for the default TTL of the cache.
EffectiveTTL(ttl) == IF ttl = 0 THEN defaultTTL ELSE ttl

\* Variant: the entry is inserted before room is made for its bytes, so that the
\* eviction for the memory limit ranges over the new entry too.
SetOutcomesInsertingFirst(c0, key, value, ttl, t) ==
    LET ttl1 == EffectiveTTL(ttl)
        itemSize == estimateSize(value)
    IN UNION {
         { [c |-> r3.c,
            existed |-> key \in DOMAIN c0.items,
            purged |-> r1.purged \cup r3.purged,
            evicted |-> r1.evicted,
            evictedMem |-> r3.evicted]
           : r3 \in SetMemoryRoom(SetInsert(SetSubtractExisting(r1.c, key), key, value,
                                            itemSize, ttl1, t), 0, t) }
         : r1 \in SetItemRoom(c0, t) }

\* The outcomes of Set on the cache c0 at time t: the cache after the call, whether
\* the key was stored before it, and the keys purged and evicted on the way.
SetOutcomes(c0, key, value, ttl, t) ==
    LET ttl1 == EffectiveTTL(ttl)
        itemSize == estimateSize(value)
    IN UNION {
         { [c |-> SetInsert(r3.c, key, value, itemSize, ttl1, t),
            existed |-> key \in DOMAIN c0.items,
            purged |-> r1.purged \cup r3.purged,
            evicted |-> r1.evicted,
            evictedMem |-> r3.evicted]
           : r3 \in SetMemoryRoom(SetSubtractExisting(r1.c, key), itemSize, t) }
         : r1 \in SetItemRoom(c0, t) }

Set(key, value, ttl) ==
    \E r \in SetOutcomes([items |-> items, currentSize |-> currentSize], key, value, ttl, now) :
        /\ items' = r.c.items
        /\ currentSize' = r.c.currentSize
        /\ written' = [k \in (DOMAIN written \ (r.evicted \cup r.evictedMem)) \cup {key} |->
                          IF k = key
                          THEN [value |-> value,
                                expiresAt |-> now + EffectiveTTL(ttl)]
                          ELSE written[k]]
        /\ last' = [op |-> "Set", key |-> key, ttl |-> ttl, existed |-> r.existed,
                    purged |-> r.purged, evicted |-> r.evicted, evictedMem |-> r.evictedMem]
        /\ UNCHANGED <<defaultTTL, maxItems, maxMemory, cleanupStarted, now>>

\* Variant: an entry counts as expired from its expiration instant on.
GetResultExpiredAtInstant(key) ==
    IF key \notin DOMAIN items THEN [value |-> NilVal, found |-> FALSE]
    ELSE IF now >= items[key].expiresAt THEN [value |-> NilVal, found |-> FALSE]
    ELSE [value |-> items[key].value, found |-> TRUE]

\* What Get returns in the current state.
GetResult(key) ==
    IF key \notin DOMAIN items THEN [value |-> NilVal, found |-> FALSE]
    ELSE IF After(now, items[key].expiresAt) THEN [value |-> NilVal, found |-> FALSE]
    ELSE [value |-> items[key].value, found |-> TRUE]

\* Variant: a Get that finds its entry expired deletes it.
GetRemovingExpired(key) ==
    /\ IF key \in DOMAIN items /\ After(now, items[key].expiresAt)
       THEN /\ items' = Restrict(items, DOMAIN items \ {key})
            /\ currentSize' = currentSize - items[key].size
       ELSE UNCHANGED <<items, currentSize>>
    /\ last' = [NoCall EXCEPT !.op = "Get", !.key = key]
    /\ UNCHANGED <<defaultTTL, maxItems, maxMemory, cleanupStarted, now, written>>

Get(key) ==
    /\ last' = [NoCall EXCEPT !.op = "Get", !.key = key]
    /\ UNCHANGED <<items, currentSize, defaultTTL, maxItems, maxMemory, cleanupStarted, now, written>>

\* Variant: Delete removes the entry and leaves the counter alone.
DeleteWithoutAccounting(key) ==
    /\ items' = Restrict(items, DOMAIN items \ {key})
    /\ written' = Restrict(written, DOMAIN written \ {key})
    /\ last' = [NoCall EXCEPT !.op = "Delete", !.key = key, !.existed = key \in DOMAIN items]
    /\ UNCHANGED <<currentSize, defaultTTL, maxItems, maxMemory, cleanupStarted, now>>

Delete(key) ==
    /\ IF key \in DOMAIN items
       THEN /\ currentSize' = currentSize - items[key].size
            /\ items' = Restrict(items, DOMAIN items \ {key})
       ELSE UNCHANGED <<items, currentSize>>
    /\ written' = Restrict(written, DOMAIN written \ {key})
    /\ last' = [NoCall EXCEPT !.op = "Delete", !.key = key, !.existed = key \in DOMAIN items]
    /\ UNCHANGED <<defaultTTL, maxItems, maxMemory, cleanupStarted, now>>

\* Variant: Clear empties the map and leaves the counter alone.
ClearWithoutAccounting ==
    /\ items' = <<>>
    /\ written' = <<>>
    /\ last' = [NoCall EXCEPT !.op = "Clear", !.existed = items # <<>>]
    /\ UNCHANGED <<currentSize, defaultTTL, maxItems, maxMemory, cleanupStarted, now>>

Clear ==
    /\ items' = <<>>
    /\ currentSize' = 0
    /\ written' = <<>>
    /\ last' = [NoCall EXCEPT !.op = "Clear", !.existed = items # <<>>]
    /\ UNCHANGED <<defaultTTL, maxItems, maxMemory, cleanupStarted, now>>

\* Variant: the pass removes nothing.
cleanupNothing ==
    /\ cleanupStarted
    /\ last' = [NoCall EXCEPT !.op = "cleanup"]
    /\ UNCHANGED <<items, currentSize, defaultTTL, maxItems, maxMemory, cleanupStarted, now, written>>

\* Variant: the pass removes every entry, expired or not.
cleanupEverything ==
    /\ cleanupStarted
    /\ items' = <<>>
    /\ last' = [NoCall EXCEPT !.op = "cleanup", !.purged = DOMAIN items]
    /\ UNCHANGED <<currentSize, defaultTTL, maxItems, maxMemory, cleanupStarted, now, written>>

\* One pass of the loop body of the cleanup goroutine (one tick of its ticker).
cleanup ==
    /\ cleanupStarted
    /\ items' = Restrict(items, DOMAIN items \ ExpiredKeys(items, now))
    /\ last' = [NoCall EXCEPT !.op = "cleanup", !.purged = ExpiredKeys(items, now)]
    /\ UNCHANGED <<currentSize, defaultTTL, maxItems, maxMemory, cleanupStarted, now, written>>

\* Go's integer division, which truncates toward zero.
Quo(a, b) == IF a >= 0 THEN a \div b ELSE -((-a) \div b)

\* Variant: Stats counts an entry as expired from its expiration instant on.
StatsResultExpiredAtInstant ==
    LET expired == Cardinality({k \in DOMAIN items : now >= items[k].expiresAt}) IN
    [total_items |-> Count(items),
     expired_items |-> expired,
     active_items |-> Count(items) - expired,
     memory_used_mb |-> Quo(currentSize, MB),
     memory_limit_mb |-> Quo(maxMemory, MB),
     memory_used_bytes |-> currentSize]

\* What Stats returns in the current state.
StatsResult ==
    [total_items |-> Count(items),
     expired_items |-> Cardinality(ExpiredKeys(items, now)),
     active_items |-> Count(items) - Cardinality(ExpiredKeys(items, now)),
     memory_used_mb |-> Quo(currentSize, MB),
     memory_limit_mb |-> Quo(maxMemory, MB),
     memory_used_bytes |-> currentSize]

\* Variant: Stats purges the expired entries it counts.
StatsPurging ==
    /\ items' = evictExpired([items |-> items, currentSize |-> currentSize], now).items
    /\ currentSize' = evictExpired([items |-> items, currentSize |-> currentSize], now).currentSize
    /\ last' = [NoCall EXCEPT !.op = "Stats"]
    /\ UNCHANGED <<defaultTTL, maxItems, maxMemory, cleanupStarted, now, written>>

Stats ==
    /\ last' = [NoCall EXCEPT !.op = "Stats"]
    /\ UNCHANGED <<items, currentSize, defaultTTL, maxItems, maxMemory, cleanupStarted, now, written>>

\* The wall clock advances.
Tick ==
    /\ now < MaxTime
    /\ now' = now + 1
    /\ last' = [NoCall EXCEPT !.op = "Tick"]
    /\ UNCHANGED <<items, currentSize, defaultTTL, maxItems, maxMemory, cleanupStarted, written>>

Next ==
    /\ UNCHANGED <<keyVars, lockVars, sideVars>>
    /\ \/ \E key \in Keys, value \in Values, ttl \in TTLs : Set(key, value, ttl)
       \/ \E key \in Keys : Get(key)
       \/ \E key \in Keys : Delete(key)
       \/ Clear
       \/ cleanup
       \/ Stats
       \/ Tick

Spec == Init /\ [][Next]_vars

(***************************************************************************)
(* A caller that derives its keys with GenerateKey: it builds the keys of   *)
(* two (query, connection, role) lists, stores a value under the first key *)
(* and reads under the second.                                             *)
(***************************************************************************)
KeyInit ==
    /\ KeyStart("buildA")
    /\ LockOff
    /\ SideOff
    /\ \E ttl \in DefaultTTLs : New(ttl)

BuildA(components) ==
    /\ kphase = "buildA"
    /\ kA' = components
    /\ keyA' = GenerateKey(components)
    /\ kphase' = "buildB"
    /\ UNCHANGED <<kB, keyB, got>>
    /\ UNCHANGED storeVars

BuildB(components) ==
    /\ kphase = "buildB"
    /\ kB' = components
    /\ keyB' = GenerateKey(components)
    /\ kphase' = "store"
    /\ UNCHANGED <<kA, keyA, got>>
    /\ UNCHANGED storeVars

KeySet(value, ttl) ==
    /\ kphase = "store"
    /\ Set(keyA, value, ttl)
    /\ kphase' = "read"
    /\ UNCHANGED <<kA, kB, keyA, keyB, got>>

KeyGet ==
    /\ kphase = "read"
    /\ Get(keyB)
    /\ got' = GetResult(keyB)
    /\ kphase' = "done"
    /\ UNCHANGED <<kA, kB, keyA, keyB>>

KeyNext ==
    /\ UNCHANGED <<lockVars, sideVars>>
    /\ \/ \E components \in KeyLists : BuildA(components)
       \/ \E components \in KeyLists : BuildB(components)
       \/ \E value \in Values, ttl \in TTLs : KeySet(value, ttl)
       \/ KeyGet

SpecKey == KeyInit /\ [][KeyNext]_vars

(***************************************************************************)
(* A cache with a memory limit that is given values larger than the limit. *)
(***************************************************************************)
\* Against a limit of 1 MB: a value whose estimate alone is above the limit.
HugeVal == StringVal(1100000)
MemValues == {SmallVal, HugeVal}
MemKeys == {"a", "b"}

MemInit ==
    /\ KeyStart("off")
    /\ LockOff
    /\ SideOff
    /\ \E ttl \in DefaultTTLs, mb \in MemoryLimitsMB : NewWithMemoryLimit(ttl, mb)

MemNext ==
    /\ UNCHANGED <<keyVars, lockVars, sideVars>>
    /\ \/ \E key \in MemKeys, value \in MemValues, ttl \in TTLs : Set(key, value, ttl)
       \/ \E key \in MemKeys : Get(key)
       \/ \E key \in MemKeys : Delete(key)
       \/ Clear
       \/ cleanup
       \/ Stats
       \/ Tick

SpecMem == MemInit /\ [][MemNext]_vars

(***************************************************************************)
(* A cache whose cleanup goroutine is scheduled fairly: the ticker fires    *)
(* every five minutes for as long as the process runs and the loop never   *)
(* ends, so a pass that can run does run.                                  *)
(***************************************************************************)
SweepKeys == {"a", "b"}

SweepInit ==
    /\ KeyStart("off")
    /\ LockOff
    /\ SideOff
    /\ \E ttl \in DefaultTTLs :
        \/ New(ttl)
        \/ \E mi \in ItemLimits : NewWithMaxItems(ttl, mi)
        \/ \E mb \in MemoryLimitsMB : NewWithMemoryLimit(ttl, mb)

SweepPass ==
    /\ cleanup
    /\ UNCHANGED <<keyVars, lockVars, sideVars>>

SweepNext ==
    \/ /\ UNCHANGED <<keyVars, lockVars, sideVars>>
       /\ \/ \E key \in SweepKeys, value \in Values, ttl \in TTLs : Set(key, value, ttl)
          \/ \E key \in SweepKeys : Get(key)
          \/ \E key \in SweepKeys : Delete(key)
          \/ Clear
          \/ Stats
          \/ Tick
    \/ SweepPass

SpecSweep == SweepInit /\ [][SweepNext]_vars /\ WF_vars(SweepPass)

(***************************************************************************)
(* A Set call followed through the recursion of estimateSize.  Each call of *)
(* estimateSize is a frame on the stack of the goroutine; when the stack    *)
(* passes its limit the Go runtime ends the process (fatal error: stack     *)
(* overflow), which no caller can recover from.                             *)
(***************************************************************************)
\* The number of estimateSize frames the stack has room for.
MaxFrames == 3
\* The lengths and field counts of the values handed to Set.
MaxShapeLen == 2

NilPtr == [kind |-> "ptr", isNil |-> TRUE]
PtrTo(v) == [kind |-> "ptr", isNil |-> FALSE, elem |-> v]
\* var x interface{}; x = &x: a pointer whose pointee is the pointer itself.
SelfPtr == [kind |-> "ptr", isNil |-> FALSE]

ShapeVals ==
    {NilVal, NilPtr, [kind |-> "int"]}
    \cup {StringVal(n) : n \in 0..MaxShapeLen}
    \cup {[kind |-> k, len |-> n, boxed |-> b] : k \in {"slice", "array"}, n \in 0..MaxShapeLen, b \in BOOLEAN}
    \cup {[kind |-> "map", len |-> n] : n \in 0..MaxShapeLen}
    \cup {[kind |-> "struct", numField |-> n] : n \in 0..MaxShapeLen}

EstValues ==
    ShapeVals \cup {PtrTo(v) : v \in ShapeVals} \cup {PtrTo(PtrTo(v)) : v \in ShapeVals}
    \cup {SelfPtr}

EstKeys == {"a"}

\* v.Kind() == reflect.Ptr && !v.IsNil()
PointsSomewhere(v) == v.kind = "ptr" /\ ~v.isNil

\* v.Elem().Interface()
Elem(v) == IF "elem" \in DOMAIN v THEN v.elem ELSE v

EstInit ==
    /\ KeyStart("off")
    /\ LockOff
    /\ FlowOff
    /\ PureOff
    /\ RoleOff
    /\ \E ttl \in DefaultTTLs : New(ttl)
    /\ est = [pc |-> "idle"]

EstCall(key, value, ttl) ==
    /\ est.pc \in {"idle", "returned"}
    /\ est' = [pc |-> "called", key |-> key, value |-> value, ttl |-> ttl, cur |-> value,
               acc |-> 0, depth |-> 0, locked |-> FALSE]
    /\ UNCHANGED <<items, currentSize>>

\* Lines 87-98 of Set, and the call of estimateSize at line 101.
EstLockRoom ==
    /\ est.pc = "called"
    /\ \E r1 \in SetItemRoom([items |-> items, currentSize |-> currentSize], now) :
          /\ items' = r1.c.items
          /\ currentSize' = r1.c.currentSize
    /\ est' = [est EXCEPT !.pc = "estimate", !.locked = TRUE, !.depth = 1]

\* Line 218: estimateSize calls itself on the pointee.
EstDescend ==
    /\ est.pc = "estimate"
    /\ PointsSomewhere(est.cur)
    /\ est.depth < MaxFrames
    /\ est' = [est EXCEPT !.cur = Elem(est.cur), !.acc = @ + 8, !.depth = @ + 1]
    /\ UNCHANGED <<items, currentSize>>

\* The next frame does not fit the stack: the runtime ends the process.
EstOverflow ==
    /\ est.pc = "estimate"
    /\ PointsSomewhere(est.cur)
    /\ est.depth = MaxFrames
    /\ est' = [est EXCEPT !.pc = "fatal"]
    /\ UNCHANGED <<items, currentSize>>

\* Any other value is sized without a further call, and the frames return.
EstLeaf ==
    /\ est.pc = "estimate"
    /\ ~PointsSomewhere(est.cur)
    /\ est' = [est EXCEPT !.pc = "insert", !.acc = @ + estimateSize(est.cur)]
    /\ UNCHANGED <<items, currentSize>>

\* Lines 103-121 of Set, with the deferred unlock.
EstInsertReturn ==
    /\ est.pc = "insert"
    /\ \E r3 \in SetMemoryRoom(SetSubtractExisting([items |-> items, currentSize |-> currentSize],
                                                   est.key), est.acc, now) :
          LET c == SetInsert(r3.c, est.key, est.value, est.acc, EffectiveTTL(est.ttl), now) IN
          /\ items' = c.items
          /\ currentSize' = c.currentSize
    /\ est' = [est EXCEPT !.pc = "returned", !.locked = FALSE]

EstNext ==
    /\ UNCHANGED <<keyVars, lockVars, roleVars, flow, arg, ret, defaultTTL, maxItems, maxMemory,
                   cleanupStarted, now, written, last>>
    /\ \/ \E key \in EstKeys, value \in EstValues, ttl \in TTLs : EstCall(key, value, ttl)
       \/ EstLockRoom
       \/ EstDescend
       \/ EstOverflow
       \/ EstLeaf
       \/ EstInsertReturn

SpecEst == EstInit /\ [][EstNext]_vars

(***************************************************************************)
(* Goroutines calling into caches.  A method call is split at its lock     *)
(* operations: the goroutine asks for c.mu, takes it, runs the body and     *)
(* gives the lock back on return.  The bodies of Set and Stats are two      *)
(* steps each, so that another goroutine can run in between.  A goroutine   *)
(* takes the time of its call when it has the lock.                         *)
(***************************************************************************)
CacheNames == {"query", "metadata"}
Clients == {"g1", "g2"}
\* The goroutines running cleanup, one per cache.
Sweepers == {"cleanup_query", "cleanup_metadata"}
SweptCache(g) == IF g = "cleanup_query" THEN "query" ELSE "metadata"

LockKeys == {"a", "b"}
LockValues == {SmallVal}
LockTTLs == {0}

WriteOps == {"Set", "Delete", "Clear", "cleanup"}
ReadOps == {"Get", "Stats"}

EmptyCache == [items |-> <<>>, currentSize |-> 0]
Unlocked == [writer |-> "none", readers |-> {}]
\* A goroutine outside every call; rest lists the caches a clear-all has yet to clear.
Returned == [pc |-> "idle", op |-> "none", cache |-> "none", key |-> "", value |-> NilVal,
             ttl |-> 0, t |-> 0, snap |-> EmptyCache, counted |-> 0, rest |-> <<>>]

LockInit(names, goroutines) ==
    /\ KeyStart("off")
    /\ SideOff
    /\ \E ttl \in DefaultTTLs, mi \in ItemLimits : NewWithMaxItems(ttl, mi)
    /\ caches = [n \in names |-> EmptyCache]
    /\ mu = [n \in names |-> Unlocked]
    /\ gor = [g \in goroutines |-> Returned]

\* A client goroutine enters a method of cache n and asks for its lock.
Call(g, op, n, key, value, ttl) ==
    /\ g \in Clients \cap DOMAIN gor
    /\ n \in DOMAIN caches
    /\ gor[g].pc = "idle"
    /\ gor[g].rest = <<>>
    /\ gor' = [gor EXCEPT ![g] = [Returned EXCEPT !.pc = "wait", !.op = op, !.cache = n,
                                                  !.key = key, !.value = value, !.ttl = ttl]]
    /\ UNCHANGED <<caches, mu, now>>

CallSet(g, n, key, value, ttl) == Call(g, "Set", n, key, value, ttl)
CallGet(g, n, key) == Call(g, "Get", n, key, NilVal, 0)
CallDelete(g, n, key) == Call(g, "Delete", n, key, NilVal, 0)
CallClear(g, n) == Call(g, "Clear", n, "", NilVal, 0)
CallStats(g, n) == Call(g, "Stats", n, "", NilVal, 0)

\* The ticker of a cleanup goroutine fires: the goroutine asks for the lock.
TickerFires(g) ==
    /\ g \in Sweepers \cap DOMAIN gor
    /\ gor[g].pc = "idle"
    /\ gor' = [gor EXCEPT ![g] = [Returned EXCEPT !.pc = "wait", !.op = "cleanup",
                                                  !.cache = SweptCache(g)]]
    /\ UNCHANGED <<caches, mu, now>>

\* Variant: the exclusive lock is taken while readers hold the shared lock.
LockDespiteReaders(g) ==
    /\ gor[g].pc = "wait"
    /\ gor[g].op \in WriteOps
    /\ mu[gor[g].cache].writer = "none"
    /\ mu' = [mu EXCEPT ![gor[g].cache].writer = g]
    /\ gor' = [gor EXCEPT ![g].pc = "body", ![g].t = now, ![g].snap = caches[gor[g].cache]]
    /\ UNCHANGED <<caches, now>>

\* c.mu.Lock()
Lock(g) ==
    /\ gor[g].pc = "wait"
    /\ gor[g].op \in WriteOps
    /\ mu[gor[g].cache].writer = "none"
    /\ mu[gor[g].cache].readers = {}
    /\ mu' = [mu EXCEPT ![gor[g].cache].writer = g]
    /\ gor' = [gor EXCEPT ![g].pc = "body", ![g].t = now, ![g].snap = caches[gor[g].cache]]
    /\ UNCHANGED <<caches, now>>

\* c.mu.RLock()
RLock(g) ==
    /\ gor[g].pc = "wait"
    /\ gor[g].op \in ReadOps
    /\ mu[gor[g].cache].writer = "none"
    /\ mu' = [mu EXCEPT ![gor[g].cache].readers = @ \cup {g}]
    /\ gor' = [gor EXCEPT ![g].pc = "body", ![g].t = now, ![g].snap = caches[gor[g].cache]]
    /\ UNCHANGED <<caches, now>>

\* Variant: the method returns with the exclusive lock still held.
ReturnLocked(g) ==
    /\ UNCHANGED mu
    /\ gor' = [gor EXCEPT ![g] = [Returned EXCEPT !.rest = gor[g].rest]]

\* The deferred c.mu.Unlock() and the return.
UnlockReturn(g) ==
    /\ mu' = [mu EXCEPT ![gor[g].cache].writer = "none"]
    /\ gor' = [gor EXCEPT ![g] = [Returned EXCEPT !.rest = gor[g].rest]]

\* The deferred c.mu.RUnlock() and the return.
RUnlockReturn(g) ==
    /\ mu' = [mu EXCEPT ![gor[g].cache].readers = @ \ {g}]
    /\ gor' = [gor EXCEPT ![g] = [Returned EXCEPT !.rest = gor[g].rest]]

\* Lines 90-111 of Set on the cache c: the caches it may leave before the insert.
SetRoomOutcomes(c, key, value, t) ==
    UNION { {r3.c : r3 \in SetMemoryRoom(SetSubtractExisting(r1.c, key), estimateSize(value), t)}
            : r1 \in SetItemRoom(c, t) }

SetRoom(g) ==
    /\ gor[g].pc = "body"
    /\ gor[g].op = "Set"
    /\ \E c \in SetRoomOutcomes(caches[gor[g].cache], gor[g].key, gor[g].value, gor[g].t) :
          caches' = [caches EXCEPT ![gor[g].cache] = c]
    /\ gor' = [gor EXCEPT ![g].pc = "insert"]
    /\ UNCHANGED <<mu, now>>

SetInsertReturn(g) ==
    /\ gor[g].pc = "insert"
    /\ caches' = [caches EXCEPT ![gor[g].cache] =
                     SetInsert(@, gor[g].key, gor[g].value, estimateSize(gor[g].value),
                               EffectiveTTL(gor[g].ttl), gor[g].t)]
    /\ UnlockReturn(g)
    /\ UNCHANGED now

\* The body of Delete on the cache c.
DeleteFrom(c, key) ==
    IF key \in DOMAIN c.items
    THEN [items |-> Restrict(c.items, DOMAIN c.items \ {key}),
          currentSize |-> c.currentSize - c.items[key].size]
    ELSE c

DeleteReturn(g) ==
    /\ gor[g].pc = "body"
    /\ gor[g].op = "Delete"
    /\ caches' = [caches EXCEPT ![gor[g].cache] = DeleteFrom(@, gor[g].key)]
    /\ UnlockReturn(g)
    /\ UNCHANGED now

ClearReturn(g) ==
    /\ gor[g].pc = "body"
    /\ gor[g].op = "Clear"
    /\ caches' = [caches EXCEPT ![gor[g].cache] = EmptyCache]
    /\ UnlockReturn(g)
    /\ UNCHANGED now

\* One pass of cleanup over the cache c: currentSize stays as it is.
Swept(c, t) == [c EXCEPT !.items = Restrict(c.items, DOMAIN c.items \ ExpiredKeys(c.items, t))]

\* The pass ends with c.mu.Unlock(); the goroutine waits for the next tick.
cleanupPass(g) ==
    /\ gor[g].pc = "body"
    /\ gor[g].op = "cleanup"
    /\ caches' = [caches EXCEPT ![gor[g].cache] = Swept(@, gor[g].t)]
    /\ UnlockReturn(g)
    /\ UNCHANGED now

GetReturn(g) ==
    /\ gor[g].pc = "body"
    /\ gor[g].op = "Get"
    /\ RUnlockReturn(g)
    /\ UNCHANGED <<caches, now>>

\* Lines 176-183 of Stats: the expired entries are counted.
StatsCount(g) ==
    /\ gor[g].pc = "body"
    /\ gor[g].op = "Stats"
    /\ gor' = [gor EXCEPT ![g].pc = "size",
                          ![g].counted = Cardinality(ExpiredKeys(caches[gor[g].cache].items, gor[g].t))]
    /\ UNCHANGED <<caches, mu, now>>

\* Lines 185-192 of Stats: the map is built from len(c.items) and c.currentSize.
StatsReturn(g) ==
    /\ gor[g].pc = "size"
    /\ RUnlockReturn(g)
    /\ UNCHANGED <<caches, now>>

LockTick ==
    /\ now < MaxTime
    /\ now' = now + 1
    /\ UNCHANGED lockVars

\* The steps of the goroutines when the clients use the keys of the set keys.
LockSteps(keys) ==
    /\ UNCHANGED <<keyVars, sideVars, items, currentSize, defaultTTL, maxItems, maxMemory,
                   cleanupStarted, written, last>>
    /\ \/ \E g \in DOMAIN gor, n \in CacheNames, key \in keys, value \in LockValues,
             ttl \in LockTTLs : CallSet(g, n, key, value, ttl)
       \/ \E g \in DOMAIN gor, n \in CacheNames, key \in keys : CallGet(g, n, key)
       \/ \E g \in DOMAIN gor, n \in CacheNames, key \in keys : CallDelete(g, n, key)
       \/ \E g \in DOMAIN gor, n \in CacheNames : CallClear(g, n)
       \/ \E g \in DOMAIN gor, n \in CacheNames : CallStats(g, n)
       \/ \E g \in DOMAIN gor : TickerFires(g)
       \/ \E g \in DOMAIN gor : Lock(g)
       \/ \E g \in DOMAIN gor : RLock(g)
       \/ \E g \in DOMAIN gor : SetRoom(g)
       \/ \E g \in DOMAIN gor : SetInsertReturn(g)
       \/ \E g \in DOMAIN gor : DeleteReturn(g)
       \/ \E g \in DOMAIN gor : ClearReturn(g)
       \/ \E g \in DOMAIN gor : cleanupPass(g)
       \/ \E g \in DOMAIN gor : GetReturn(g)
       \/ \E g \in DOMAIN gor : StatsCount(g)
       \/ \E g \in DOMAIN gor : StatsReturn(g)
       \/ LockTick

LockNext == LockSteps(LockKeys)

\* Two clients and the cleanup goroutine of one cache.
SpecLock == LockInit({"query"}, Clients \cup {"cleanup_query"}) /\ [][LockNext]_vars

(***************************************************************************)
(* The query cache and the metadata cache side by side, and the clear-all  *)
(* operation, which clears the query cache and then the metadata cache.    *)
(***************************************************************************)
TwoKeys == {"a"}

CallClearAll(g) ==
    /\ g \in Clients \cap DOMAIN gor
    /\ gor[g].pc = "idle"
    /\ gor[g].rest = <<>>
    /\ gor' = [gor EXCEPT ![g] = [Returned EXCEPT !.pc = "wait", !.op = "Clear",
                                                  !.cache = "query", !.rest = <<"metadata">>]]
    /\ UNCHANGED <<caches, mu, now>>

\* The Clear of one cache has returned; clear-all goes on to the next cache.
ClearAllNext(g) ==
    /\ gor[g].pc = "idle"
    /\ gor[g].rest # <<>>
    /\ gor' = [gor EXCEPT ![g] = [Returned EXCEPT !.pc = "wait", !.op = "Clear",
                                                  !.cache = Head(gor[g].rest),
                                                  !.rest = Tail(gor[g].rest)]]
    /\ UNCHANGED <<caches, mu, now>>

ClearAllSteps ==
    /\ UNCHANGED <<keyVars, sideVars, items, currentSize, defaultTTL, maxItems, maxMemory,
                   cleanupStarted, written, last>>
    /\ \/ \E g \in DOMAIN gor : CallClearAll(g)
       \/ \E g \in DOMAIN gor : ClearAllNext(g)

TwoNext ==
    \/ LockSteps(TwoKeys)
    \/ ClearAllSteps

SpecTwo == LockInit(CacheNames, Clients \cup {"cleanup_metadata"}) /\ [][TwoNext]_vars

(***************************************************************************)
(* The classifier of the query cache.  SQL text is the sequence of its     *)
(* bytes; the inputs are put together from a few fragments.                *)
(***************************************************************************)
\* A statement is made of at most MaxFragments fragments.
MaxFragments == 2

\* "SELECT ", "select ", "selected ", "UPDATE ", "insert ", "x", " ", "now()",
\* "NOW()", "current_timestamp", "CURRENT_TIMESTAMP", "Random()".
SqlFragments ==
    {<<83, 69, 76, 69, 67, 84, 32>>,
     <<115, 101, 108, 101, 99, 116, 32>>,
     <<115, 101, 108, 101, 99, 116, 101, 100, 32>>,
     <<85, 80, 68, 65, 84, 69, 32>>,
     <<105, 110, 115, 101, 114, 116, 32>>,
     <<120>>, <<32>>,
     <<110, 111, 119, 40, 41>>,
     <<78, 79, 87, 40, 41>>,
     <<99, 117, 114, 114, 101, 110, 116, 95, 116, 105, 109, 101, 115, 116, 97, 109, 112>>,
     <<67, 85, 82, 82, 69, 78, 84, 95, 84, 73, 77, 69, 83, 84, 65, 77, 80>>,
     <<82, 97, 110, 100, 111, 109, 40, 41>>}

RECURSIVE Concatenations(_, _)
Concatenations(fragments, n) ==
    IF n = 0 THEN {<<>>}
    ELSE LET shorter == Concatenations(fragments, n - 1) IN
         shorter \cup {t \o f : t \in shorter, f \in fragments}

SqlTexts == Concatenations(SqlFragments, MaxFragments)

\* "select"
SelectKeyword == <<115, 101, 108, 101, 99, 116>>
\* The time-sensitive functions: "now()", "current_timestamp", "random()".
TimeSensitive ==
    {<<110, 111, 119, 40, 41>>,
     <<99, 117, 114, 114, 101, 110, 116, 95, 116, 105, 109, 101, 115, 116, 97, 109, 112>>,
     <<114, 97, 110, 100, 111, 109, 40, 41>>}
\* "insert", "update", "delete", "create", "drop", "alter"
ModifyingKeywords ==
    {<<105, 110, 115, 101, 114, 116>>,
     <<117, 112, 100, 97, 116, 101>>,
     <<100, 101, 108, 101, 116, 101>>,
     <<99, 114, 101, 97, 116, 101>>,
     <<100, 114, 111, 112>>,
     <<97, 108, 116, 101, 114>>}

\* A..Z are 65..90, a..z are 97..122.
LowerByte(c) == IF c \in 65..90 THEN c + 32 ELSE c
ToLower(text) == [i \in 1..Len(text) |-> LowerByte(text[i])]
IsLetter(c) == LowerByte(c) \in 97..122
\* Space, tab, line feed, carriage return.
IsSpace(c) == c \in {32, 9, 10, 13}

RECURSIVE SkipSpace(_, _)
SkipSpace(text, i) ==
    IF i <= Len(text) /\ IsSpace(text[i]) THEN SkipSpace(text, i + 1) ELSE i

RECURSIVE SkipLetters(_, _)
SkipLetters(text, i) ==
    IF i <= Len(text) /\ IsLetter(text[i]) THEN SkipLetters(text, i + 1) ELSE i

\* The first word of the text.
LeadingKeyword(text) ==
    LET from == SkipSpace(text, 1) IN SubSeq(text, from, SkipLetters(text, from) - 1)

RECURSIVE IndexFrom(_, _, _)
IndexFrom(text, term, i) ==
    IF i + Len(term) - 1 > Len(text) THEN 0
    ELSE IF SubSeq(text, i, i + Len(term) - 1) = term THEN i
    ELSE IndexFrom(text, term, i + 1)

Contains(text, term) == IndexFrom(text, term, 1) > 0

\* Variant: the text is inspected as written, upper case included.
IsCacheableAsWritten(sql) ==
    /\ LeadingKeyword(sql) = SelectKeyword
    /\ \A term \in TimeSensitive : ~Contains(sql, term)

IsCacheable(sql) ==
    /\ LeadingKeyword(ToLower(sql)) = SelectKeyword
    /\ \A term \in TimeSensitive : ~Contains(ToLower(sql), term)

ClassifyInit ==
    /\ KeyStart("off")
    /\ LockOff
    /\ EstOff
    /\ FlowOff
    /\ RoleOff
    /\ \E ttl \in DefaultTTLs : New(ttl)
    /\ arg \in SqlTexts
    /\ ret = <<>>

Classify ==
    /\ ret = <<>>
    /\ ret' = <<IsCacheable(arg)>>
    /\ UNCHANGED <<storeVars, keyVars, lockVars, roleVars, est, flow, arg>>

SpecClassify == ClassifyInit /\ [][Classify]_vars

(***************************************************************************)
(* The query executor in front of the query cache: it classifies the       *)
(* statement, builds the key, probes the cache, runs the query on a miss   *)
(* and stores a result that is not too large.                              *)
(***************************************************************************)
\* Results with more rows than this are not cached.
RowCeiling == 10000

\* "select x", "SELECT NOW()", "update x"
FlowStatements ==
    {<<115, 101, 108, 101, 99, 116, 32, 120>>,
     <<83, 69, 76, 69, 67, 84, 32, 78, 79, 87, 40, 41>>,
     <<117, 112, 100, 97, 116, 101, 32, 120>>}
FlowConnection == <<99>>
FlowRoles == {<<114>>, <<119>>}
FlowRowCounts == {0, RowCeiling, RowCeiling + 1}

\* A query result of the given number of rows, as the cache sees it: a pointer
\* to a record.
ResultVal(rows) == [kind |-> "ptr", isNil |-> FALSE,
                    elem |-> [kind |-> "struct", numField |-> 4, rows |-> rows]]

NoRequest == [pc |-> "idle", sql |-> <<>>, role |-> <<>>, cacheable |-> FALSE, key |-> <<>>,
              lookup |-> "none", executed |-> FALSE, rows |-> 0, served |-> "none",
              wrote |-> FALSE, stored |-> {}]

FlowInit ==
    /\ KeyStart("off")
    /\ LockOff
    /\ EstOff
    /\ PureOff
    /\ RoleOff
    /\ \E ttl \in DefaultTTLs : New(ttl)
    /\ flow = NoRequest

FlowRequest(sql, role) ==
    /\ flow.pc \in {"idle", "done"}
    /\ flow' = [NoRequest EXCEPT !.pc = "classify", !.sql = sql, !.role = role,
                                 !.stored = flow.stored]
    /\ UNCHANGED storeVars

\* The statement is classified; for a cacheable one the key is built.
FlowClassify ==
    /\ flow.pc = "classify"
    /\ flow' = IF IsCacheable(flow.sql)
               THEN [flow EXCEPT !.pc = "lookup", !.cacheable = TRUE,
                                 !.key = GenerateKey(<<flow.sql, FlowConnection, flow.role>>)]
               ELSE [flow EXCEPT !.pc = "execute"]
    /\ UNCHANGED storeVars

\* The cache is probed; a hit is returned as the result.
FlowLookup ==
    /\ flow.pc = "lookup"
    /\ Get(flow.key)
    /\ flow' = IF GetResult(flow.key).found
               THEN [flow EXCEPT !.pc = "done", !.lookup = "hit", !.served = "cache"]
               ELSE [flow EXCEPT !.pc = "execute", !.lookup = "miss"]

\* Variant: every result of a cacheable statement is stored, whatever its size.
FlowExecuteStoringAll(rows) ==
    /\ flow.pc = "execute"
    /\ flow' = [flow EXCEPT !.pc = IF flow.cacheable THEN "store" ELSE "done",
                            !.executed = TRUE, !.rows = rows, !.served = "database"]
    /\ UNCHANGED storeVars

\* The query runs on the database and returns rows rows.
FlowExecute(rows) ==
    /\ flow.pc = "execute"
    /\ flow' = [flow EXCEPT !.pc = IF flow.cacheable /\ rows <= RowCeiling THEN "store" ELSE "done",
                            !.executed = TRUE, !.rows = rows, !.served = "database"]
    /\ UNCHANGED storeVars

\* The result is stored under the key with the default TTL of the cache.
FlowStore ==
    /\ flow.pc = "store"
    /\ Set(flow.key, ResultVal(flow.rows), 0)
    /\ flow' = [flow EXCEPT !.pc = "done", !.wrote = TRUE, !.stored = @ \cup {flow.sql}]

FlowTick ==
    /\ Tick
    /\ UNCHANGED flow

\* A pass of the cleanup goroutine of the query cache.
FlowSweep ==
    /\ cleanup
    /\ UNCHANGED flow

FlowNext ==
    /\ UNCHANGED <<keyVars, lockVars, roleVars, est, arg, ret>>
    /\ \/ \E sql \in FlowStatements, role \in FlowRoles : FlowRequest(sql, role)
       \/ FlowClassify
       \/ FlowLookup
       \/ \E rows \in FlowRowCounts : FlowExecute(rows)
       \/ FlowStore
       \/ FlowTick
       \/ FlowSweep

SpecFlow == FlowInit /\ [][FlowNext]_vars

(***************************************************************************)
(* The hiding filters of package client.  A compiled pattern is one of the *)
(* forms the tests use: a literal found anywhere in the item ("public"), a *)
(* literal at its start ("^temp_") or a literal at its end ("_backup$").   *)
(***************************************************************************)
\* Lists of items and of rows have at most MaxListLen elements, lists of
\* patterns at most MaxPatterns.
MaxListLen == 3
MaxPatterns == 2

\* The patterns "pub", "^t_" and "_b$".
HidePatterns ==
    {[kind |-> "anywhere", text |-> <<112, 117, 98>>],
     [kind |-> "start", text |-> <<116, 95>>],
     [kind |-> "end", text |-> <<95, 98>>]}

\* The items "pub", "t_a", "a_b", "at_" and "u".
FilterItems ==
    {<<112, 117, 98>>, <<116, 95, 97>>, <<97, 95, 98>>,
     <<97, 116, 95>>, <<117>>}

RECURSIVE SeqsUpTo(_, _)
SeqsUpTo(S, n) ==
    IF n = 0 THEN {<<>>}
    ELSE LET shorter == SeqsUpTo(S, n - 1) IN
         shorter \cup {Append(q, x) : q \in shorter, x \in S}

\* regexp.MatchString for the three forms of pattern.
MatchString(pattern, item) ==
    LET n == Len(pattern.text) IN
    CASE pattern.kind = "anywhere" ->
            \E i \in 1..(Len(item) - n + 1) : SubSeq(item, i, i + n - 1) = pattern.text
      [] pattern.kind = "start" -> n <= Len(item) /\ SubSeq(item, 1, n) = pattern.text
      [] pattern.kind = "end" ->
            n <= Len(item) /\ SubSeq(item, Len(item) - n + 1, Len(item)) = pattern.text

RECURSIVE shouldHideItemFrom(_, _, _)
shouldHideItemFrom(item, patterns, i) ==
    IF i > Len(patterns) THEN FALSE
    ELSE IF MatchString(patterns[i], item) THEN TRUE
    ELSE shouldHideItemFrom(item, patterns, i + 1)

\* Variant: an item is hidden only by the first pattern of the list.
shouldHideItemByFirst(item, patterns) ==
    Len(patterns) > 0 /\ MatchString(patterns[1], item)

shouldHideItem(item, patterns) == shouldHideItemFrom(item, patterns, 1)

RECURSIVE FilterStringSliceFrom(_, _, _, _)
FilterStringSliceFrom(list, patterns, i, filtered) ==
    IF i > Len(list) THEN filtered
    ELSE FilterStringSliceFrom(list, patterns, i + 1,
                               IF ~shouldHideItem(list[i], patterns)
                               THEN Append(filtered, list[i])
                               ELSE filtered)

FilterStringSlice(list, patterns) ==
    IF Len(patterns) = 0 THEN list
    ELSE FilterStringSliceFrom(list, patterns, 1, <<>>)

\* Cells of a row: a string, a value of another type, or nil.
TextCell(text) == [kind |-> "string", text |-> text]
NumberCell == [kind |-> "int"]

\* Rows of the objects query (oid, schema, name): the schemas "pub" and "app", the
\* names "t_a" and "u"; and the malformed rows: two columns only, a schema that is
\* not a string, a name that is nil.
ObjectRows ==
    {<<NumberCell, TextCell(schema), TextCell(name)>> :
        schema \in {<<112, 117, 98>>, <<97, 112, 112>>},
        name \in {<<116, 95, 97>>, <<117>>}}
    \cup {<<NumberCell, TextCell(<<97, 112, 112>>)>>,
          <<NumberCell, NumberCell, TextCell(<<117>>)>>,
          <<NumberCell, TextCell(<<97, 112, 112>>), NilVal>>}

\* A Result: ref tells the objects apart, 1 is the one handed in.
ResultOf(ref, rows) ==
    [ref |-> ref,
     Columns |-> <<"oid", "schema", "name">>,
     Rows |-> rows,
     Pagination |-> NilVal,
     Stats |-> [RowsCount |-> Len(rows)]]

\* row[i].(string), with Go's index from 0.
IsString(row, i) == row[i + 1].kind = "string"

RECURSIVE filterRowsFrom(_, _, _, _, _)
filterRowsFrom(rows, schemaPatterns, objectPatterns, i, filteredRows) ==
    IF i > Len(rows) THEN filteredRows
    ELSE filterRowsFrom(rows, schemaPatterns, objectPatterns, i + 1,
            IF Len(rows[i]) < 3 THEN filteredRows
            ELSE IF ~IsString(rows[i], 1) THEN filteredRows
            ELSE IF ~IsString(rows[i], 2) THEN filteredRows
            ELSE IF shouldHideItem(rows[i][2].text, schemaPatterns) THEN filteredRows
            ELSE IF shouldHideItem(rows[i][3].text, objectPatterns) THEN filteredRows
            ELSE Append(filteredRows, rows[i]))

\* Variant: rows that are too short or hold no strings are kept.
filterObjectsResultKeepingMalformed(result, schemaPatterns, objectPatterns) ==
    IF Len(schemaPatterns) = 0 /\ Len(objectPatterns) = 0 THEN result
    ELSE [result EXCEPT
            !.ref = 2,
            !.Rows = SelectSeq(result.Rows,
                        LAMBDA row :
                           ~(/\ Len(row) >= 3
                             /\ IsString(row, 1)
                             /\ IsString(row, 2)
                             /\ \/ shouldHideItem(row[2].text, schemaPatterns)
                                \/ shouldHideItem(row[3].text, objectPatterns)))]

filterObjectsResult(result, schemaPatterns, objectPatterns) ==
    IF Len(schemaPatterns) = 0 /\ Len(objectPatterns) = 0 THEN result
    ELSE [ref |-> 2,
          Columns |-> result.Columns,
          Rows |-> filterRowsFrom(result.Rows, schemaPatterns, objectPatterns, 1, <<>>),
          Pagination |-> result.Pagination,
          Stats |-> result.Stats]

FilterInit ==
    /\ KeyStart("off")
    /\ LockOff
    /\ EstOff
    /\ FlowOff
    /\ RoleOff
    /\ \E ttl \in DefaultTTLs : New(ttl)
    /\ ret = <<>>
    /\ \/ \E list \in SeqsUpTo(FilterItems, MaxListLen),
             patterns \in SeqsUpTo(HidePatterns, MaxPatterns) :
             arg = [fn |-> "FilterStringSlice", items |-> list, patterns |-> patterns]
       \/ \E rows \in SeqsUpTo(ObjectRows, MaxListLen),
             schemaPatterns, objectPatterns \in SeqsUpTo(HidePatterns, 1) :
             arg = [fn |-> "filterObjectsResult", result |-> ResultOf(1, rows),
                    schemaPatterns |-> schemaPatterns, objectPatterns |-> objectPatterns]

CallFilterStringSlice ==
    /\ ret = <<>>
    /\ arg.fn = "FilterStringSlice"
    /\ ret' = <<FilterStringSlice(arg.items, arg.patterns)>>
    /\ UNCHANGED <<storeVars, keyVars, lockVars, roleVars, est, flow, arg>>

CallFilterObjectsResult ==
    /\ ret = <<>>
    /\ arg.fn = "filterObjectsResult"
    /\ ret' = <<filterObjectsResult(arg.result, arg.schemaPatterns, arg.objectPatterns)>>
    /\ UNCHANGED <<storeVars, keyVars, lockVars, roleVars, est, flow, arg>>

FilterNext ==
    \/ CallFilterStringSlice
    \/ CallFilterObjectsResult

SpecFilter == FilterInit /\ [][FilterNext]_vars

(***************************************************************************)
(* Two caches built by the same constructor with a memory limit, each used *)
(* by its own callers and swept by its own cleanup goroutine, with one     *)
(* clock.  Calls are taken whole.                                          *)
(***************************************************************************)
PairInit ==
    /\ KeyStart("off")
    /\ SideOff
    /\ \E ttl \in DefaultTTLs, mb \in MemoryLimitsMB : NewWithMemoryLimit(ttl, mb)
    /\ caches = [n \in CacheNames |-> EmptyCache]
    /\ mu = [n \in CacheNames |-> Unlocked]
    /\ gor = <<>>

PairSet(n, key, value, ttl) ==
    \E r \in SetOutcomes(caches[n], key, value, ttl, now) :
        /\ caches' = [caches EXCEPT ![n] = r.c]
        /\ UNCHANGED <<storeVars, keyVars, mu, gor, sideVars>>

PairCleanup(n) ==
    /\ cleanupStarted
    /\ caches' = [caches EXCEPT ![n] = Swept(@, now)]
    /\ UNCHANGED <<storeVars, keyVars, mu, gor, sideVars>>

PairTick ==
    /\ Tick
    /\ UNCHANGED <<keyVars, lockVars, sideVars>>

PairNext ==
    \/ \E n \in CacheNames, key \in LockKeys, value \in LockValues, ttl \in TTLs :
           PairSet(n, key, value, ttl)
    \/ \E n \in CacheNames : PairCleanup(n)
    \/ PairTick

SpecPair == PairInit /\ [][PairNext]_vars

(***************************************************************************)
(* The role of a request.  roleInjectionMiddleware copies the header       *)
(* X-Database-Role into client.defaultRole through SetRole, and query and  *)
(* exec send SET ROLE "<defaultRole>" before the statement of the caller.  *)
(* Each request is served by a goroutine of its own; the requests of a     *)
(* session (or all requests, without sessions) share one Client, and no    *)
(* lock guards defaultRole.  A Go string is two words, a data pointer and  *)
(* a length, which an assignment stores one after the other: unsynchronised*)
(* goroutines can leave or see the pointer of one string with the length   *)
(* of another.                                                             *)
(***************************************************************************)
\* len(role) <= 64 in isValidRoleName.
MaxRoleNameLen == 64

Requests == {"r1", "r2"}

\* The values of the header: none; the names a and bc; and a", 1 and a name of
\* 65 letters, which isValidRoleName turns down.
RoleHeaders ==
    {<<>>, <<97>>, <<98, 99>>, <<97, 34>>, <<49>>, [i \in 1..MaxRoleNameLen + 1 |-> 97]}

\* The calls a handler makes: query with a statement it runs itself, query with an
\* update or delete that it hands on to exec, and exec.
ClientCalls == {[op |-> "query", action |-> "select"],
                [op |-> "query", action |-> "update"],
                [op |-> "exec", action |-> "update"]}

\* Bytes that may lie in memory behind the data of a string: a quote, a letter.
BeyondBytes == {34, 122}

\* The zero value of a string: a nil data pointer (no data) and length 0.
EmptyString == [data |-> <<>>, len |-> 0]

\* A request slot outside every request.
NoReq == [pc |-> "idle", header |-> <<>>, op |-> "none", action |-> "none", word |-> "none",
          failed |-> FALSE, sent |-> FALSE, ranUnder |-> <<>>, result |-> "none"]

\* regexp.MatchString(`^[a-zA-Z][a-zA-Z0-9_]*$`, role) && len(role) <= 64
isValidRoleName(role) ==
    LET alpha(c) == c \in 65..90 \/ c \in 97..122
        word(c) == alpha(c) \/ c \in 48..57 \/ c = 95
        match == /\ Len(role) >= 1
                 /\ alpha(role[1])
                 /\ \A i \in 2..Len(role) : word(role[i])
    IN match /\ Len(role) <= MaxRoleNameLen

\* The strings a read of the two words of str may yield: the first len bytes of
\* the data, followed, where len is beyond the data, by whatever lies behind it.
\* No string at all when len bytes are to be read through the nil pointer: the
\* read faults and the goroutine panics.
ReadString(str) ==
    IF str.len <= Len(str.data) THEN {SubSeq(str.data, 1, str.len)}
    ELSE IF str.data = <<>> THEN {}
    ELSE {str.data \o tail : tail \in [1..(str.len - Len(str.data)) -> BeyondBytes]}

RoleInit ==
    /\ KeyStart("off")
    /\ LockOff
    /\ EstOff
    /\ FlowOff
    /\ PureOff
    /\ \E ttl \in DefaultTTLs : New(ttl)
    /\ \E readonly \in BOOLEAN :
          client = [defaultRole |-> EmptyString, current |-> <<>>, readonly |-> readonly]
    /\ reqs = [r \in Requests |-> NoReq]

\* A request arrives; gin runs its middleware chain in a goroutine of its own.
Receive(r, header, call) ==
    /\ reqs[r].pc = "idle"
    /\ reqs' = [reqs EXCEPT ![r] = [NoReq EXCEPT !.pc = "middleware", !.header = header,
                                                 !.op = call.op, !.action = call.action]]
    /\ UNCHANGED client

\* roleInjectionMiddleware with no header, or SetRole with a name it turns down:
\* nothing is stored; c.Next() runs the handler, which calls query or exec.
MiddlewareSkip(r) ==
    /\ reqs[r].pc = "middleware"
    /\ ~(reqs[r].header # <<>> /\ isValidRoleName(reqs[r].header))
    /\ reqs' = [reqs EXCEPT ![r].pc = reqs[r].op]
    /\ UNCHANGED client

\* One word of role is stored in the field.
StoreWord(str, role, word) ==
    IF word = "data" THEN [str EXCEPT !.data = role] ELSE [str EXCEPT !.len = Len(role)]

\* SetRole: client.defaultRole = role, the first of the two words.
SetRoleFirstWord(r, word) ==
    /\ reqs[r].pc = "middleware"
    /\ reqs[r].header # <<>> /\ isValidRoleName(reqs[r].header)
    /\ client' = [client EXCEPT !.defaultRole = StoreWord(@, reqs[r].header, word)]
    /\ reqs' = [reqs EXCEPT ![r].pc = "setrole", ![r].word = word]

\* SetRole: the other word; then c.Next() runs the handler, which calls query or
\* exec.
SetRoleSecondWord(r) ==
    /\ reqs[r].pc = "setrole"
    /\ client' = [client EXCEPT !.defaultRole =
                     StoreWord(@, reqs[r].header, IF reqs[r].word = "data" THEN "len" ELSE "data")]
    /\ reqs' = [reqs EXCEPT ![r].pc = reqs[r].op, ![r].word = "none"]

\* Where a call goes on once its SET ROLE is through: query to its transaction mode,
\* exec to the statement.
AfterSetRole(pc) == IF pc = "query" THEN "mode" ELSE "statement"

\* Variant: a failure of SET ROLE is ignored and the call goes on.
SendSetRoleIgnoringError(r) ==
    /\ reqs[r].pc \in {"query", "exec"}
    /\ IF client.defaultRole.len = 0
       THEN /\ reqs' = [reqs EXCEPT ![r].pc = AfterSetRole(reqs[r].pc)]
            /\ UNCHANGED client
       ELSE IF ReadString(client.defaultRole) = {}
       THEN /\ reqs' = [reqs EXCEPT ![r].pc = "idle", ![r].result = "panic"]
            /\ UNCHANGED client
       ELSE \E role \in ReadString(client.defaultRole), ok \in BOOLEAN :
              IF ok
              THEN /\ client' = [client EXCEPT !.current = role]
                   /\ reqs' = [reqs EXCEPT ![r].pc = AfterSetRole(reqs[r].pc)]
              ELSE /\ reqs' = [reqs EXCEPT ![r].pc = AfterSetRole(reqs[r].pc), ![r].failed = TRUE]
                   /\ UNCHANGED client

\* The head of query and of exec: with a non-empty defaultRole the client sends
\* SET ROLE "<defaultRole>", which the database carries out or turns down; when it
\* is turned down the call returns the error.  Formatting a defaultRole whose
\* bytes cannot be read panics.
SendSetRole(r) ==
    /\ reqs[r].pc \in {"query", "exec"}
    /\ IF client.defaultRole.len = 0
       THEN /\ reqs' = [reqs EXCEPT ![r].pc = AfterSetRole(reqs[r].pc)]
            /\ UNCHANGED client
       ELSE IF ReadString(client.defaultRole) = {}
       THEN /\ reqs' = [reqs EXCEPT ![r].pc = "idle", ![r].result = "panic"]
            /\ UNCHANGED client
       ELSE \E role \in ReadString(client.defaultRole), ok \in BOOLEAN :
              IF ok
              THEN /\ client' = [client EXCEPT !.current = role]
                   /\ reqs' = [reqs EXCEPT ![r].pc = AfterSetRole(reqs[r].pc)]
              ELSE /\ reqs' = [reqs EXCEPT ![r].pc = "idle", ![r].failed = TRUE,
                                           ![r].result = "error"]
                   /\ UNCHANGED client

\* query forces the transaction mode: a read-only client may return an error here
\* (SetReadOnlyMode fails, or the statement has a restricted keyword).  Then an
\* update or delete is handed on to exec, another statement is sent by query.
ForceMode(r) ==
    /\ reqs[r].pc = "mode"
    /\ \/ /\ client.readonly
          /\ reqs' = [reqs EXCEPT ![r].pc = "idle", ![r].result = "error"]
       \/ reqs' = [reqs EXCEPT ![r].pc = IF reqs[r].action = "update" THEN "exec" ELSE "statement"]
    /\ UNCHANGED client

\* The statement of the caller is sent; it runs under the role of the last
\* SET ROLE the client sent, and the call returns what the database answers.
SendStatement(r) ==
    /\ reqs[r].pc = "statement"
    /\ reqs' = [reqs EXCEPT ![r].pc = "idle", ![r].sent = TRUE,
                            ![r].ranUnder = client.current, ![r].result = "answer"]
    /\ UNCHANGED client

RoleNext ==
    /\ UNCHANGED <<storeVars, keyVars, lockVars, est, flow, arg, ret>>
    /\ \E r \in Requests :
          \/ \E header \in RoleHeaders, call \in ClientCalls : Receive(r, header, call)
          \/ MiddlewareSkip(r)
          \/ \E word \in {"data", "len"} : SetRoleFirstWord(r, word)
          \/ SetRoleSecondWord(r)
          \/ SendSetRole(r)
          \/ ForceMode(r)
          \/ SendStatement(r)

SpecRole == RoleInit /\ [][RoleNext]_vars

(***************************************************************************)
(* Properties of the store.                                                *)
(***************************************************************************)
\* C1: in every reachable state currentSize, which Stats reports as
\* memory_used_bytes, equals the sum of the sizes of the stored entries.
C1_SizeIsSum == StatsResult.memory_used_bytes = TotalSize(items)

\* The two lists name the same query and connection string and different roles.
SameQueryOtherRole == kA[1] = kB[1] /\ kA[2] = kB[2] /\ kA[3] # kB[3]

\* C2: the keys of (q, c, r1) and (q, c, r2) with r1 # r2 differ, and a value stored
\* under the first key is not returned by Get under the second.
C2_RoleIsolation ==
    /\ (kphase \in {"store", "read", "done"} /\ SameQueryOtherRole) => keyA # keyB
    /\ (kphase = "done" /\ SameQueryOtherRole) => ~got.found

\* A live value is stored under one role's key and the read under the other role's
\* key has missed.
C2_Witness ==
    /\ kphase = "done"
    /\ SameQueryOtherRole
    /\ keyA \in DOMAIN items
    /\ GetResult(keyA).found
    /\ ~got.found

\* C3: two distinct component lists are joined into distinct strings before
\* hashing.
C3_JoinInjective ==
    (kphase \in {"store", "read", "done"} /\ kA # kB)
        => JoinComponents(kA, <<>>) # JoinComponents(kB, <<>>)

\* Get(k) returns what the last Set of k wrote while that Set stands and
\* StillLive(its expiration) holds, and found = false once it does not.
ReadsAsWritten(StillLive(_)) ==
    \A k \in DOMAIN written :
        GetResult(k) = IF StillLive(written[k].expiresAt)
                       THEN [value |-> written[k].value, found |-> TRUE]
                       ELSE [value |-> NilVal, found |-> FALSE]

BeforeInstant(expiresAt) == now < expiresAt
UpToInstant(expiresAt) == now <= expiresAt

\* C4: after Set(k, v, ttl) at time t0, with no later write, delete or eviction of
\* k, Get(k) returns (v, true) while now < t0 + ttl and found = false once
\* now >= t0 + ttl, whatever else has run.
C4_ExpiresAtInstant == ReadsAsWritten(BeforeInstant)

\* C4, as the code has it: Get(k) returns (v, true) while now <= t0 + ttl, the
\* expiration instant included, and found = false once now > t0 + ttl.
C4_ExpiresAfterInstant == ReadsAsWritten(UpToInstant)

\* Get has just read a key at the expiration instant of its entry.
C4_Witness ==
    /\ last.op = "Get"
    /\ last.key \in DOMAIN written
    /\ now = written[last.key].expiresAt
    /\ GetResult(last.key).found

\* The number of stored entries stays within maxItems.
WithinMaxItems(m) == maxItems > 0 => Count(m) <= maxItems

\* This step is a Set of a key that is not stored, into a store holding maxItems
\* entries.
SetOfNewKeyAtCapacity ==
    /\ last'.op = "Set"
    /\ ~last'.existed
    /\ maxItems > 0
    /\ Count(items) = maxItems

\* C5: the number of stored entries never exceeds maxItems, and a Set of a new key
\* into a full store leaves exactly maxItems entries.
C5_ExactlyMaxItems ==
    [][WithinMaxItems(items') /\ (SetOfNewKeyAtCapacity => Count(items') = maxItems)]_vars

\* C5, as the code has it: the number of stored entries never exceeds maxItems, and
\* a Set of a new key into a full store leaves exactly maxItems entries when no
\* stored entry has expired and the new value fits the memory limit as counted.
C5_ExactlyMaxItemsUnexpired ==
    [][/\ WithinMaxItems(items')
       /\ (/\ SetOfNewKeyAtCapacity
           /\ ExpiredKeys(items, now) = {}
           /\ (maxMemory > 0 => currentSize + items'[last'.key].size <= maxMemory))
              => Count(items') = maxItems]_vars

\* A Set of a new key has evicted an entry of a full store none of whose entries
\* had expired.
C5_Witness ==
    /\ last.op = "Set"
    /\ ~last.existed
    /\ last.purged = {}
    /\ last.evicted # {}
    /\ Count(items) = maxItems

\* C6: after a Set of a value whose size is at most maxMemory, the sum of the
\* sizes of the stored entries is at most maxMemory.
C6_MemoryBound ==
    (last.op = "Set" /\ maxMemory > 0 /\ items[last.key].size <= maxMemory)
        => TotalSize(items) <= maxMemory

\* C7: no entry that was stored before a Set and survives it expires strictly
\* earlier than an entry the Set evicted.
C7_EvictsNearestExpiration ==
    [][last'.op = "Set" =>
        \A e \in last'.evicted \cup last'.evictedMem :
            \A s \in (DOMAIN items \cap DOMAIN items') \ {last'.key} :
                ~(items[s].expiresAt < items[e].expiresAt)]_vars

\* A Set has evicted an entry and another entry has survived it.
C7_Witness ==
    /\ last.op = "Set"
    /\ last.evicted \cup last.evictedMem # {}
    /\ DOMAIN items \ {last.key} # {}

\* C8: a Set that overwrites a stored key in a store holding exactly maxItems
\* entries evicts no other entry.
C8_OverwriteEvictsNothing ==
    [][(/\ last'.op = "Set"
        /\ last'.existed
        /\ maxItems > 0
        /\ Count(items) = maxItems)
           => last'.evicted \subseteq {last'.key}]_vars

\* The counter after the expired entries of the store are gone and, when the key
\* of this step's Set is still stored then, its old size is subtracted.
CountedAfterPurge ==
    LET p == evictExpired([items |-> items, currentSize |-> currentSize], now)
    IN SetSubtractExisting(p, last'.key).currentSize

RepeatedSet ==
    /\ last.op = "Set"
    /\ last'.op = "Set"
    /\ last'.key = last.key
    /\ items'[last.key].value = items[last.key].value
    /\ items'[last.key].expiresAt = items[last.key].expiresAt

\* C10: a Set called twice in a row leaves one entry for the key and the same
\* currentSize as after the first call.
C10_SetIdempotent ==
    [][RepeatedSet => (last.key \in DOMAIN items' /\ currentSize' = currentSize)]_vars

\* C11: a Set that overwrites a stored key, begun with currentSize equal to the sum
\* of the stored sizes, ends with currentSize equal to the sum of the stored sizes
\* (the old size is subtracted once and the new size added once).
C11_OverwriteCountsOnce ==
    [][(last'.op = "Set" /\ last'.existed /\ currentSize = TotalSize(items))
          => currentSize' = TotalSize(items')]_vars

\* The entries of the store that have not expired.
Unexpired == DOMAIN items \ ExpiredKeys(items, now)

\* C12: a cleanup pass removes exactly the expired entries: right after it Stats
\* reports expired_items = 0 and total_items = the number of entries that were
\* unexpired before the pass.
C12_SweepRemovesExpired ==
    [][last'.op = "cleanup" =>
        /\ items' = Restrict(items, Unexpired)
        /\ StatsResult'.expired_items = 0
        /\ StatsResult'.total_items = Cardinality(Unexpired)]_vars

\* A cleanup pass has removed an expired entry and left an unexpired one.
C12_Witness ==
    /\ last.op = "cleanup"
    /\ last.purged # {}
    /\ items # <<>>
    /\ StatsResult.expired_items = 0

\* C13: a cleanup pass decreases currentSize by exactly the sum of the sizes of
\* the entries it removes.
C13_SweepAdjustsTotal ==
    [][last'.op = "cleanup" =>
        currentSize' = currentSize - SumSizes(items, DOMAIN items \ DOMAIN items')]_vars

\* C14: the sweeper can be stopped: whenever the cleanup goroutine is running, some
\* step the Cache offers ends with the goroutine terminated.
C14_SweeperStoppable == cleanupStarted => ENABLED (Next /\ ~cleanupStarted')

\* C15: Get changes neither the map nor currentSize, whether its key is stored,
\* absent or expired; an expired entry it reports as not found stays stored.
C15_GetReadOnly ==
    [][last'.op = "Get" => (items' = items /\ currentSize' = currentSize)]_vars

\* Get has just missed on an entry that is stored and expired.
C15_Witness ==
    /\ last.op = "Get"
    /\ last.key \in DOMAIN items
    /\ After(now, items[last.key].expiresAt)
    /\ ~GetResult(last.key).found

\* C16: Stats changes neither the map nor currentSize, also when expired entries
\* are stored.
C16_StatsReadOnly ==
    [][last'.op = "Stats" => (items' = items /\ currentSize' = currentSize)]_vars

\* Stats has just run over a store that holds an expired entry.
C16_Witness ==
    /\ last.op = "Stats"
    /\ StatsResult.expired_items > 0

\* C17: Stats reports the number of stored entries, the number of stored entries
\* for which Get at the same instant misses, their difference (never negative)
\* and currentSize.
C17_StatsSnapshot ==
    /\ StatsResult.total_items = Cardinality(DOMAIN items)
    /\ StatsResult.expired_items = Cardinality({k \in DOMAIN items : ~GetResult(k).found})
    /\ StatsResult.active_items = StatsResult.total_items - StatsResult.expired_items
    /\ StatsResult.active_items >= 0
    /\ StatsResult.memory_used_bytes = currentSize

\* Stats has just run over a store holding an expired entry and an entry that is at
\* its expiration instant.
C17_Witness ==
    /\ last.op = "Stats"
    /\ StatsResult.expired_items > 0
    /\ \E k \in DOMAIN items : now = items[k].expiresAt

\* C18: after Clear the store holds no entry, Stats reports total_items = 0 and
\* memory_used_bytes = 0, and Get misses on every key that was stored before.
C18_ClearEmpties ==
    [][last'.op = "Clear" =>
        /\ items' = <<>>
        /\ StatsResult'.total_items = 0
        /\ StatsResult'.memory_used_bytes = 0
        /\ \A k \in DOMAIN items : ~GetResult(k)'.found]_vars

\* Clear has just emptied a store that held an entry.
C18_Witness ==
    /\ last.op = "Clear"
    /\ last.existed
    /\ StatsResult.total_items = 0

\* C19: Delete of a stored key removes that entry, subtracts its recorded size
\* from currentSize and leaves every other entry as it was; Delete of an absent key
\* changes neither the map nor currentSize.
C19_DeleteExactlyOne ==
    [][last'.op = "Delete" =>
        IF last'.key \in DOMAIN items
        THEN /\ items' = Restrict(items, DOMAIN items \ {last'.key})
             /\ currentSize' = currentSize - items[last'.key].size
        ELSE items' = items /\ currentSize' = currentSize]_vars

\* Delete has just removed a stored entry and another entry is still stored.
C19_Witness ==
    /\ last.op = "Delete"
    /\ last.existed
    /\ last.key \notin DOMAIN items
    /\ items # <<>>

\* C20: a Set with ttl = 0 stores its entry with expiration now + defaultTTL, a Set
\* with another ttl stores it with expiration now + ttl.
C20_SetExpiration ==
    last.op = "Set" =>
        /\ last.key \in DOMAIN items
        /\ items[last.key].expiresAt = now + (IF last.ttl = 0 THEN defaultTTL ELSE last.ttl)

\* A Set with ttl = 0 has just stored an entry that expires defaultTTL from now.
C20_Witness ==
    /\ last.op = "Set"
    /\ last.ttl = 0
    /\ defaultTTL > 0
    /\ items[last.key].expiresAt = now + defaultTTL

(***************************************************************************)
(* Properties of the goroutines.                                           *)
(***************************************************************************)
InCall(g) == gor[g].pc \in {"body", "insert", "size"}

\* C21: lock discipline of one cache.  A goroutine inside Set, Delete, Clear or a
\* cleanup pass is the writer of c.mu and nobody else holds the lock; a goroutine
\* inside Get or Stats is one of its readers and there is no writer.  Between
\* taking the lock and giving it back a call sees only its own changes, so the
\* calls take effect one after the other, in the order the lock was taken.
C21_LockDiscipline ==
    /\ \A n \in DOMAIN mu : mu[n].writer # "none" => mu[n].readers = {}
    /\ \A g \in DOMAIN gor :
          InCall(g) =>
             /\ IF gor[g].op \in ReadOps
                THEN g \in mu[gor[g].cache].readers
                ELSE mu[gor[g].cache].writer = g
             /\ gor[g].pc \in {"body", "size"} => caches[gor[g].cache] = gor[g].snap
             /\ gor[g].pc = "insert" =>
                   caches[gor[g].cache] \in
                      SetRoomOutcomes(gor[g].snap, gor[g].key, gor[g].value, gor[g].t)
             /\ gor[g].pc = "size" =>
                   gor[g].counted = Cardinality(ExpiredKeys(gor[g].snap.items, gor[g].t))

\* Two goroutines read one cache at the same time while a third waits to write it.
C21_Witness ==
    \E g, h, w \in DOMAIN gor :
        /\ g # h
        /\ InCall(g) /\ InCall(h)
        /\ gor[g].op \in ReadOps /\ gor[h].op \in ReadOps
        /\ gor[g].cache = gor[h].cache
        /\ gor[w].pc = "wait" /\ gor[w].op \in WriteOps /\ gor[w].cache = gor[g].cache
        /\ caches[gor[g].cache].items # <<>>

Holds(g, n) == mu[n].writer = g \/ g \in mu[n].readers

\* C22: the two caches are independent.  No goroutine holds the locks of both
\* caches at once, or holds one while it waits for the other, so whoever holds a
\* lock can always go on; and a step inside a call on one cache leaves the items
\* and the currentSize of the other cache as they were.
C22_Independent ==
    /\ [](\A g \in DOMAIN gor :
             /\ \A n, m \in DOMAIN mu : Holds(g, n) /\ Holds(g, m) => n = m
             /\ \A n \in DOMAIN mu : Holds(g, n) => InCall(g) /\ gor[g].cache = n)
    /\ [][\A g \in DOMAIN gor :
             gor'[g] # gor[g] /\ gor[g].pc # "idle" =>
                \A n \in DOMAIN caches : n # gor[g].cache => caches'[n] = caches[n]]_vars

\* A clear-all has cleared the query cache, which another client has filled again
\* since, and has yet to clear the metadata cache, which the cleanup goroutine holds.
C22_Witness ==
    \E g, h \in DOMAIN gor :
        /\ gor[g].pc = "idle" /\ gor[g].rest = <<"metadata">>
        /\ h \in Sweepers /\ Holds(h, "metadata")
        /\ caches["metadata"].items # <<>>
        /\ caches["query"].items # <<>>

\* C23: oversized-item policy.  After a Set of a value whose estimate alone is
\* above maxMemory the key is readable and it is the only entry of the cache.
C23_OversizedAdmittedAlone ==
    (/\ last.op = "Set"
     /\ maxMemory > 0
     /\ estimateSize(written[last.key].value) > maxMemory)
    => /\ GetResult(last.key).found
       /\ DOMAIN items = {last.key}

\* C24: in a cache whose cleanup goroutine runs, an entry that has expired is
\* eventually out of the map, and so out of total_items, whatever else happens.
C24_ExpiredEventuallySwept ==
    \A k \in SweepKeys, e \in 0..MaxTime :
        (cleanupStarted /\ k \in DOMAIN items /\ items[k].expiresAt = e /\ After(now, e))
        ~> ~(k \in DOMAIN items /\ items[k].expiresAt = e)

\* A cleanup pass has removed an expired entry that no call touched after it was
\* written, while an entry that has not expired stays and is the only one counted.
C24_Witness ==
    /\ last.op = "cleanup"
    /\ Cardinality(last.purged) = 1
    /\ last.purged \cap DOMAIN items = {}
    /\ StatsResult.total_items = 1
    /\ StatsResult.active_items = 1

\* C25: the calls are total.  A Set call that has taken the lock is not cut
\* short: it returns, and when it has returned the lock is free again.
C25_CallsComplete ==
    est.pc \in {"returned", "fatal"} => est.pc = "returned" /\ ~est.locked

\* C26: the estimator is total and determined by the value.  Every run of
\* estimateSize comes back, and with the estimate that the shape of the value
\* fixes, so the size recorded for an entry is the estimate of its value.
C26_EstimateTotal ==
    /\ est.pc \in {"insert", "fatal"} => est.pc = "insert" /\ est.acc = estimateSize(est.value)
    /\ est.pc = "returned" => items[est.key].size = estimateSize(est.value)

(***************************************************************************)
(* Properties of the classifier.                                           *)
(***************************************************************************)
\* The term stands in the text at position i, whatever the case of the text.
OccursAt(text, term, i) ==
    /\ i + Len(term) - 1 <= Len(text)
    /\ \A j \in 1..Len(term) : LowerByte(text[i + j - 1]) = term[j]

\* After leading white space the text begins with the word, in any case.
BeginsWith(text, word) ==
    \E i \in 1..Len(text) :
        /\ \A j \in 1..(i - 1) : IsSpace(text[j])
        /\ OccursAt(text, word, i)
        /\ i + Len(word) <= Len(text) => ~IsLetter(text[i + Len(word)])

Mentions(text, term) == \E i \in 1..Len(text) : OccursAt(text, term, i)

\* C27: a statement is cacheable exactly when its leading keyword is SELECT in
\* any case and none of now(), current_timestamp, random() occurs in it in any
\* case; a statement that begins with a modifying keyword is not cacheable.
C27_CacheableIffPlainSelect ==
    ret # <<>> =>
       /\ ret[1] <=> (/\ BeginsWith(arg, SelectKeyword)
                      /\ \A term \in TimeSensitive : ~Mentions(arg, term))
       /\ \A word \in ModifyingKeywords : BeginsWith(arg, word) => ~ret[1]

\* A SELECT that names a time-sensitive function in upper case has been rejected.
C27_Witness ==
    /\ ret = <<FALSE>>
    /\ BeginsWith(arg, SelectKeyword)
    /\ \E term \in TimeSensitive : Mentions(arg, term) /\ ~Contains(arg, term)

(***************************************************************************)
(* Properties of the query executor.                                       *)
(***************************************************************************)
\* C28: a result is written to the query cache only when the statement was found
\* cacheable, the lookup under its key missed, the query ran and returned no more
\* than RowCeiling rows; a statement that is not cacheable is run on the database
\* and is neither looked up in the cache nor written to it.
C28_WriteAfterMissAndRun ==
    /\ flow.pc = "store" \/ flow.wrote =>
          /\ flow.cacheable /\ IsCacheable(flow.sql)
          /\ flow.lookup = "miss"
          /\ flow.executed
          /\ flow.rows <= RowCeiling
    /\ flow.wrote /\ last.op = "Set" =>
          /\ last.key = flow.key
          /\ flow.key \in DOMAIN items
          /\ items[flow.key].value = ResultVal(flow.rows)
    /\ flow.pc = "done" /\ ~IsCacheable(flow.sql) =>
          /\ flow.executed
          /\ flow.served = "database"
          /\ flow.lookup = "none"
          /\ ~flow.wrote
    /\ \A sql \in flow.stored : IsCacheable(sql)
    /\ Count(items) > 0 => flow.stored # {}

\* A result of exactly RowCeiling rows has been written after a miss, while the
\* cache already held a result for the other role.
C28_Witness ==
    /\ flow.wrote
    /\ flow.rows = RowCeiling
    /\ Count(items) = 2

(***************************************************************************)
(* Properties of the hiding filters.                                       *)
(***************************************************************************)
Hidden(item, patterns) == \E i \in 1..Len(patterns) : MatchString(patterns[i], item)

\* out holds the elements of in that Keep accepts, each once per occurrence and
\* in the order of in.
IsSelection(out, in, Keep(_)) ==
    LET kept == {i \in 1..Len(in) : Keep(in[i])} IN
    /\ Len(out) = Cardinality(kept)
    /\ \A k \in kept : out[Cardinality({i \in kept : i <= k})] = in[k]

\* C29: FilterStringSlice returns the items that match none of the patterns, in
\* their order; with no pattern it returns the list as it is.
C29_FilterStringSlice ==
    ret # <<>> /\ arg.fn = "FilterStringSlice" =>
       /\ IsSelection(ret[1], arg.items, LAMBDA item : ~Hidden(item, arg.patterns))
       /\ arg.patterns = <<>> => ret[1] = arg.items

\* Of a list of three items the middle one has been hidden, by the second of two
\* patterns only, and the two others, which differ, have been kept.
C29_Witness ==
    /\ ret # <<>>
    /\ arg.fn = "FilterStringSlice"
    /\ Len(arg.patterns) = 2
    /\ Len(arg.items) = 3
    /\ Len(ret[1]) = 2
    /\ ret[1][1] # ret[1][2]
    /\ ~MatchString(arg.patterns[1], arg.items[2])
    /\ MatchString(arg.patterns[2], arg.items[2])

WellFormed(row) == Len(row) >= 3 /\ row[2].kind = "string" /\ row[3].kind = "string"

\* C30: with some pattern given, filterObjectsResult returns a new result with the
\* columns of the old one and exactly the well-formed rows whose schema matches no
\* schema pattern and whose name matches no object pattern, in their order; with
\* no pattern at all it returns the result it was given, malformed rows included.
C30_FilterObjectsResult ==
    ret # <<>> /\ arg.fn = "filterObjectsResult" =>
       IF arg.schemaPatterns = <<>> /\ arg.objectPatterns = <<>>
       THEN ret[1] = arg.result
       ELSE /\ ret[1].ref # arg.result.ref
            /\ ret[1].Columns = arg.result.Columns
            /\ IsSelection(ret[1].Rows, arg.result.Rows,
                           LAMBDA row : /\ WellFormed(row)
                                        /\ ~Hidden(row[2].text, arg.schemaPatterns)
                                        /\ ~Hidden(row[3].text, arg.objectPatterns))

\* A schema pattern alone has been given: a malformed row, a row of a hidden
\* schema have been dropped and one row has been kept.
C30_Witness ==
    /\ ret # <<>>
    /\ arg.fn = "filterObjectsResult"
    /\ arg.schemaPatterns # <<>>
    /\ arg.objectPatterns = <<>>
    /\ Len(arg.result.Rows) = 3
    /\ \E i \in 1..3 : ~WellFormed(arg.result.Rows[i])
    /\ \E i \in 1..3 : /\ WellFormed(arg.result.Rows[i])
                       /\ Hidden(arg.result.Rows[i][2].text, arg.schemaPatterns)
    /\ Len(ret[1].Rows) = 1

(***************************************************************************)
(* Properties of the accounting and of the choice of victims.              *)
(***************************************************************************)
\* C31: Set never rejects a write and never evicts the entry it is inserting:
\* right after Set(k, v, ttl) the key k is stored with the value v and Get(k)
\* returns (v, true), whatever the limits are and whatever was evicted.
C31_SetStoresItsEntry ==
    last.op = "Set" =>
        /\ last.key \in DOMAIN items
        /\ items[last.key].value = written[last.key].value
        /\ GetResult(last.key) = [value |-> written[last.key].value, found |-> TRUE]

\* A Set has evicted an entry and has stored its own entry, whose expiration is
\* earlier than that of an entry which survived.
C31_Witness ==
    /\ last.op = "Set"
    /\ last.evicted \cup last.evictedMem # {}
    /\ last.key \in DOMAIN items
    /\ \E k \in DOMAIN items \ {last.key} : items[k].expiresAt > items[last.key].expiresAt

\* C32: currentSize (memory_used_bytes in Stats) is never negative, after any
\* sequence of Set, Delete, Clear and cleanup passes.
C32_SizeNeverNegative == StatsResult.memory_used_bytes >= 0

\* C33: no premature eviction.  A Set evicts an unexpired entry other than the
\* one it overwrites for the memory limit only if the sizes of the entries stored
\* when it began, the overwritten one left out, plus the size of the new value
\* exceed maxMemory.
C33_NoPrematureEviction ==
    [][(last'.op = "Set" /\ last'.evictedMem \ {last'.key} # {})
          => SumSizes(items, DOMAIN items \ {last'.key}) + items'[last'.key].size > maxMemory]_vars

\* The keys a Set may evict from the cache c: the entries that evictOldest or
\* evictOldestBySize removes, over every order in which the map may be ranged.
Evictions(c, key, value, ttl) ==
    {r.evicted \cup r.evictedMem : r \in SetOutcomes(c, key, value, ttl, now)}

DistinctExpirations(m) ==
    \A j, k \in DOMAIN m : j # k => m[j].expiresAt # m[k].expiresAt

\* C34: two stores that hold the same entries, with the same sizes and pairwise
\* distinct expirations, evict the same set of keys for the same Set call.
C34_SameEntriesSameEvictions ==
    (/\ caches["query"].items = caches["metadata"].items
     /\ DistinctExpirations(caches["query"].items))
    => \A key \in LockKeys, value \in LockValues, ttl \in TTLs :
           \A e1 \in Evictions(caches["query"], key, value, ttl),
              e2 \in Evictions(caches["metadata"], key, value, ttl) : e1 = e2

(***************************************************************************)
(* Properties of the role of a request.                                    *)
(***************************************************************************)
\* The header of the request names a role that SetRole accepts.
AsksFor(r) == reqs[r].header # <<>> /\ isValidRoleName(reqs[r].header)

\* C35: a statement sent for a request that carries X-Database-Role: R runs under
\* R (the last SET ROLE sent on the client before it names R), also while other
\* requests with other roles are served on the same client.
C35_RunsUnderItsRole ==
    \A r \in Requests :
        (reqs[r].sent /\ AsksFor(r)) => reqs[r].ranUnder = reqs[r].header

\* C36: a statement sent for a request that carries no role, or a name SetRole
\* turns down, does not run under a role that an earlier request set.
C36_RoleForThisRequestOnly ==
    \A r \in Requests :
        (reqs[r].sent /\ ~AsksFor(r)) => reqs[r].ranUnder = <<>>

\* C37: when SET ROLE fails, query and exec return an error and the statement of
\* the caller is never sent.
C37_SetRoleFailureAborts ==
    \A r \in Requests :
        reqs[r].failed => (reqs[r].pc = "idle" /\ reqs[r].result = "error" /\ ~reqs[r].sent)

\* A call has just returned the error of a SET ROLE that the database turned down.
C37_Witness ==
    \E r \in Requests :
        /\ reqs[r].failed
        /\ reqs[r].pc = "idle"
        /\ reqs[r].op = "query"
        /\ reqs[r].action = "update"
        /\ client.defaultRole.len > 0

\* A name that begins with a letter, goes on with letters, digits and underscores
\* and has at most 64 bytes.
RoleNameBytes == (65..90) \cup (97..122) \cup (48..57) \cup {95}
WellFormedRole(role) ==
    /\ Len(role) \in 1..64
    /\ role[1] \notin 48..57 /\ role[1] # 95
    /\ {role[i] : i \in 1..Len(role)} \subseteq RoleNameBytes

\* C38: whenever no SetRole is half way through its assignment, the role of the
\* client is empty or a well-formed name; and the role named by every SET ROLE the
\* client has sent is a well-formed name: no quote, nothing injected.
C38_RoleAlwaysWellFormed ==
    /\ (\A r \in Requests : reqs[r].pc # "setrole")
          => \A role \in ReadString(client.defaultRole) : role = <<>> \/ WellFormedRole(role)
    /\ client.current = <<>> \/ WellFormedRole(client.current)

====
